---- MODULE Spec2Model ----
(***************************************************************************)
(* A model of innvestigate/utils/keras/graph.py: linearisation of a Keras  *)
(* model's execution (trace_model_execution), bottleneck detection         *)
(* (get_bottleneck_tensors) and the reverse pass (reverse_model).          *)
(*                                                                         *)
(* Tensors are natural numbers (identity only); a layer is a string; a     *)
(* node is a record [layer, Xs, Ys].  The forward graph is built by the    *)
(* actions Input / ApplyLayer / ApplyContainer the way the functional API  *)
(* of the framework builds it, so every graph is acyclic and every tensor  *)
(* has one producer.  A reverse "tensor" is an integer value, Add is +.    *)
(***************************************************************************)
EXTENDS Integers, Sequences, FiniteSets, TLC

\* ---------------------------------------------------------------- bounds
MaxInputs == 2
MaxNodes == 3
MaxTensors == 5
MaxNestedTensors == 4
MaxReverseTensors == 4
MaxContributions == 3
MaxGraphTensors == 4

\* ---------------------------------------------------------------- helpers
Range(s) == {s[i] : i \in DOMAIN s}

Reverse(s) == [i \in 1..Len(s) |-> s[Len(s) + 1 - i]]

Max(a, b) == IF a >= b THEN a ELSE b

Min(a, b) == IF a <= b THEN a ELSE b

RECURSIVE SeqSum(_)
SeqSum(s) == IF s = <<>> THEN 0 ELSE Head(s) + SeqSum(Tail(s))

RECURSIVE SetMax(_)
SetMax(S) ==
    IF S = {} THEN 0
    ELSE LET x == CHOOSE y \in S : TRUE IN Max(x, SetMax(S \ {x}))

\* The indices of S in increasing order.
RECURSIVE SortedSeq(_)
SortedSeq(S) ==
    IF S = {} THEN <<>>
    ELSE LET m == CHOOSE y \in S : \A z \in S : y <= z
         IN <<m>> \o SortedSeq(S \ {m})

\* d[k] = v and del d[k] on a dict kept as a function.
SetKey(d, k, v) == [x \in DOMAIN d \cup {k} |-> IF x = k THEN v ELSE d[x]]

DelKey(d, k) == [x \in DOMAIN d \ {k} |-> d[x]]

\* Fresh tensors next+1 .. next+n.
Fresh(next, n) == [i \in 1..n |-> next + i]

\* ---------------------------------------------------------------- layers
\* keras.layers.InputLayer instances of the root graph, in creation order.
InputLayers == <<"in1", "in2", "in3">>

\* Layers with one output tensor and one input tensor (Dense-like).
UnaryLayers == {"d1", "d2"}

\* A merge layer (Add-like): applied to a list of two tensors.
MergeLayers == {"add"}

\* A layer with one input tensor and two output tensors.
SplitLayers == {"split"}

\* A nested container (a Model used as a layer) and the layers of its body:
\* an InputLayer followed by a chain of two unary layers.
Containers == {"net"}

ContainerBody == <<"net_in", "net_d1", "net_d2">>

AllLayers ==
    Range(InputLayers) \cup UnaryLayers \cup MergeLayers \cup SplitLayers
        \cup Containers \cup Range(ContainerBody)

\* copy_layer(layer): a new layer object of the same class and config.
copy_layer(l) ==
    CASE l = "in1" -> "in1_copy"
      [] l = "in2" -> "in2_copy"
      [] l = "in3" -> "in3_copy"
      [] l = "d1" -> "d1_copy"
      [] l = "d2" -> "d2_copy"
      [] l = "add" -> "add_copy"
      [] l = "split" -> "split_copy"
      [] l = "net" -> "net_copy"
      [] l = "net_in" -> "net_in_copy"
      [] l = "net_d1" -> "net_d1_copy"
      [] l = "net_d2" -> "net_d2_copy"

\* isinstance(layer, keras.layers.InputLayer)
IsInputLayer(l) ==
    \E o \in Range(InputLayers) \cup {ContainerBody[1]} : l = o \/ l = copy_layer(o)

\* A container that is a layer of another container's body.
NestedContainers == {"net_inner"}

\* kchecks.is_container(layer)
is_container(l) ==
    \/ \E o \in Containers : l = o \/ l = copy_layer(o)
    \/ l \in NestedContainers

NumOutputs(l) == IF l \in SplitLayers THEN 2 ELSE 1


VARIABLES
    pc,             \* where the program is
    caller,         \* the entry point that called trace_model_execution
    exc,            \* the exception in flight or raised ("" for none)
    fwd_nodes,      \* every node created so far, in creation order
    n_tensors,      \* tensors created so far: 1..n_tensors
    model_inputs,   \* model.inputs
    model_outputs,  \* model.outputs
    reapply_on_copied_layers,   \* trace_model_execution's flag
    call_at_entry,  \* history: call when trace_model_execution was called
    call,           \* layer -> what its "call" attribute is
    monkey_patches, \* trace_model_execution: [(layer, old call)]
    layers,         \* trace_model_execution: layers
    executed_nodes, \* trace_model_execution: executed_nodes
    raw_nodes,      \* history: executed_nodes as the filter received it
    outputs,        \* trace_model_execution: outputs
    args,           \* reverse_model's arguments
    reversed_tensors,   \* reverse_model: tensor -> entry (a dict)
    bottleneck_tensors, \* reverse_model: bottleneck_tensors
    initialized_reverse_mappings,   \* reverse_model: layer -> mapping
    enum_nid,       \* reverse_model: _nid of the walk's next iteration
    reversed_input_tensors, \* reverse_model: the list returned
    constructed,    \* history: the layers a mapping class was constructed for
    applied,        \* history: the calls of mappings, in order
    keep_input_layers,  \* get_model_execution_trace's flag
    execution_trace,    \* get_model_execution_trace: the list returned
    container_layers    \* get_model_layers: container -> container.layers

control_vars == <<pc, caller, exc>>

world_vars == <<fwd_nodes, n_tensors, model_inputs, model_outputs>>

graph_vars == <<keep_input_layers, execution_trace, container_layers>>

entry_vars == <<reapply_on_copied_layers, call_at_entry, graph_vars>>

trace_vars ==
    <<entry_vars, call, monkey_patches, layers, executed_nodes,
      raw_nodes, outputs>>

reverse_vars ==
    <<args, reversed_tensors, bottleneck_tensors, initialized_reverse_mappings,
      enum_nid, reversed_input_tensors, constructed, applied>>

vars == <<control_vars, world_vars, trace_vars, reverse_vars>>

\* reverse_model's keyword arguments and its reverse_mappings; the defaults
\* of the signature where there is one.
Arguments(hm, clip, project, rm, default) ==
    [head_mapping |-> hm,
     clip_all_reversed_tensors |-> clip,
     project_bottleneck_tensors |-> project,
     reverse_mappings |-> rm,
     default_reverse_mapping |-> default]

\* clip_all_reversed_tensors: False, or a tuple (lo, hi).
ClipFalse == [on |-> FALSE, lo |-> 0, hi |-> 0]

ClipRange(lo, hi) == [on |-> TRUE, lo |-> lo, hi |-> hi]

\* project_bottleneck_tensors: False, True, or a tuple (a, b).
ProjectFalse == [mode |-> "False", lo |-> 0, hi |-> 0]

ProjectTrue == [mode |-> "True", lo |-> 0 - 1, hi |-> 1]

ProjectRange(a, b) == [mode |-> "range", lo |-> a, hi |-> b]

DefaultArgs == Arguments("None", ClipFalse, ProjectFalse, "identity", "None")

Node(l, Xs, Ys) == [layer |-> l, Xs |-> Xs, Ys |-> Ys]

\* ---------------------------------------------------------------- building
NumInputNodes == Cardinality({i \in DOMAIN fwd_nodes : IsInputLayer(fwd_nodes[i].layer)})

NumLayerNodes == Len(fwd_nodes) - NumInputNodes

Init ==
    /\ pc = "build"
    /\ caller = ""
    /\ exc = ""
    /\ fwd_nodes = <<>>
    /\ n_tensors = 0
    /\ model_inputs = <<>>
    /\ model_outputs = <<>>
    /\ reapply_on_copied_layers = FALSE
    /\ call_at_entry = [l \in AllLayers |-> "orig"]
    /\ call = [l \in AllLayers |-> "orig"]
    /\ monkey_patches = <<>>
    /\ layers = <<>>
    /\ executed_nodes = <<>>
    /\ raw_nodes = <<>>
    /\ outputs = <<>>
    /\ args = DefaultArgs
    /\ reversed_tensors = <<>>
    /\ bottleneck_tensors = {}
    /\ initialized_reverse_mappings = <<>>
    /\ enum_nid = 0
    /\ reversed_input_tensors = <<>>
    /\ constructed = <<>>
    /\ applied = <<>>
    /\ keep_input_layers = FALSE
    /\ execution_trace = <<>>
    /\ container_layers = <<>>

\* keras.layers.Input(): an InputLayer node whose input and output tensor
\* are the same new tensor.  Inputs are created first.
Input ==
    /\ pc = "build"
    /\ NumInputNodes < MaxInputs
    /\ NumLayerNodes = 0
    /\ LET t == n_tensors + 1
       IN /\ fwd_nodes' = Append(fwd_nodes, Node(InputLayers[NumInputNodes + 1], <<t>>, <<t>>))
          /\ n_tensors' = t
    /\ UNCHANGED <<reverse_vars, control_vars, model_inputs, model_outputs, trace_vars>>

\* The argument lists a layer accepts, over the tensors that exist.
ArgLists(l) ==
    IF l \in MergeLayers
    THEN {<<a, b>> : a \in 1..n_tensors, b \in 1..n_tensors}
    ELSE {<<a>> : a \in 1..n_tensors}

\* The layers of the build are taken in a fixed order of first use ("d2"
\* only after "d1"), and a merge's two arguments in increasing order: the
\* graphs left out differ from one kept by renaming layers or swapping the
\* arguments of a merge.
UsedLayers == {fwd_nodes[i].layer : i \in DOMAIN fwd_nodes}

Canonical(l, Xs) ==
    /\ l = "d2" => "d1" \in UsedLayers
    /\ Len(Xs) = 2 => Xs[1] <= Xs[2]

\* A graph with a nested container is built over fewer tensors.
TensorBound(l) ==
    IF is_container(l) \/ \E k \in UsedLayers : is_container(k)
    THEN MaxNestedTensors
    ELSE MaxTensors

\* layer(Xs): a new node with new output tensors.
ApplyLayer(l, Xs) ==
    /\ pc = "build"
    /\ NumInputNodes > 0
    /\ NumLayerNodes < MaxNodes
    /\ n_tensors + NumOutputs(l) <= TensorBound(l)
    /\ Xs \in ArgLists(l)
    /\ Canonical(l, Xs)
    /\ fwd_nodes' = Append(fwd_nodes, Node(l, Xs, Fresh(n_tensors, NumOutputs(l))))
    /\ n_tensors' = n_tensors + NumOutputs(l)
    /\ UNCHANGED <<reverse_vars, control_vars, model_inputs, model_outputs, trace_vars>>

\* Model(inputs, outputs) over the graph built so far: the outputs are one
\* or two tensors, the inputs the Input tensors the outputs derive from.
OutputLists ==
    {<<a>> : a \in 1..n_tensors}
        \cup {p \in (1..n_tensors) \X (1..n_tensors) : p[1] < p[2]}
\* ---------------------------------------------------------------- the framework's graph
\* The nodes of the network: those some output derives from (the framework
\* walks back from the outputs through every inbound node).
RECURSIVE NetFrom(_, _, _)
NetFrom(nodes, i, need) ==
    IF i = 0 THEN {}
    ELSE IF Range(nodes[i].Ys) \cap need # {}
         THEN {i} \cup NetFrom(nodes, i - 1, need \cup Range(nodes[i].Xs))
         ELSE NetFrom(nodes, i - 1, need)

NetNodes(nodes, outs) == NetFrom(nodes, Len(nodes), Range(outs))

\* A node's depth: 0 when no node of the network consumes its outputs, else
\* one more than its deepest consumer.
RECURSIVE NodeDepth(_, _, _)
NodeDepth(nodes, net, i) ==
    LET cons == {j \in net : j > i /\ Range(nodes[j].Xs) \cap Range(nodes[i].Ys) # {}}
    IN IF cons = {} THEN 0
       ELSE 1 + SetMax({NodeDepth(nodes, net, j) : j \in cons})

\* model._nodes_by_depth as a function from the nodes of the network to
\* their depth; the list of one depth is in order of creation.
NodesDepth(nodes, outs) ==
    LET net == NetNodes(nodes, outs)
    IN [i \in net |-> NodeDepth(nodes, net, i)]

nodes_by_depth(depth_of, d) == SortedSeq({i \in DOMAIN depth_of : depth_of[i] = d})

MaxDepth(depth_of) == SetMax({depth_of[i] : i \in DOMAIN depth_of})

\* The node indices for depth in sorted(keys), each depth's list in order.
RECURSIVE DepthAscending(_, _, _)
DepthAscending(depth_of, d, top) ==
    IF d > top THEN <<>>
    ELSE nodes_by_depth(depth_of, d) \o DepthAscending(depth_of, d + 1, top)

\* The order in which the framework runs a graph: depth keys sorted in
\* reverse, each depth's list in order.
RECURSIVE DepthDescending(_, _)
DepthDescending(depth_of, d) ==
    IF d < 0 THEN <<>>
    ELSE nodes_by_depth(depth_of, d) \o DepthDescending(depth_of, d - 1)

RunOrder(nodes, outs) ==
    LET depth_of == NodesDepth(nodes, outs)
    IN DepthDescending(depth_of, MaxDepth(depth_of))

\* ---------------------------------------------------------------- get_model_layers
RECURSIVE Dedup(_, _)
Dedup(s, seen) ==
    IF s = <<>> THEN <<>>
    ELSE IF Head(s) \in seen THEN Dedup(Tail(s), seen)
         ELSE <<Head(s)>> \o Dedup(Tail(s), seen \cup {Head(s)})

\* container.layers of the root model: each layer of the network once.
ModelLayers(nodes, outs) ==
    LET order == RunOrder(nodes, outs)
    IN Dedup([k \in 1..Len(order) |-> nodes[order[k]].layer], {})

\* container.layers of every container of a model built from the layers
\* above; "model" is the root.
GraphMembers(nodes, outs) ==
    [c \in {"model"} \cup Containers |->
        IF c = "model" THEN ModelLayers(nodes, outs) ELSE ContainerBody]

\* collect_layers (lines 237-242) on the rest ls of container.layers, with
\* ret and the exception raised so far in acc: pre-order, a container
\* followed by the layers of its body; the assert of line 239 ends the walk.
RECURSIVE collect_layers(_, _, _)
collect_layers(members, ls, acc) ==
    IF ls = <<>> \/ acc.err # "" THEN acc
    ELSE LET layer == Head(ls)
             appended == [err |-> "", ret |-> Append(acc.ret, layer)]
         IN IF layer \in Range(acc.ret)
            THEN [err |-> "AssertionError", ret |-> acc.ret]
            ELSE collect_layers(
                    members, Tail(ls),
                    IF is_container(layer)
                    THEN collect_layers(members, members[layer], appended)
                    ELSE appended)

\* get_model_layers(model) on the container.layers given (lines 234-245).
GetModelLayers(members) ==
    collect_layers(members, members["model"], [err |-> "", ret |-> <<>>])

get_model_layers(nodes, outs) == GetModelLayers(GraphMembers(nodes, outs)).ret

\* ---------------------------------------------------------------- trace_model_execution
contains_container(ls) == \E k \in DOMAIN ls : is_container(ls[k])

\* The else branch without line 382's reversed().
NativeNotReversed(nodes, outs) ==
    LET depth_of == NodesDepth(nodes, outs)
        rev == DepthAscending(depth_of, 0, MaxDepth(depth_of))
    IN [k \in 1..Len(rev) |-> nodes[rev[k]]]

\* The else branch: the nodes of model._nodes_by_depth, depth ascending,
\* then reversed.
NativeExecutedNodes(nodes, outs) ==
    LET depth_of == NodesDepth(nodes, outs)
        rev == DepthAscending(depth_of, 0, MaxDepth(depth_of))
        reverse_executed_nodes == [k \in 1..Len(rev) |-> nodes[rev[k]]]
    IN Reverse(reverse_executed_nodes)

\* The filter of lines 390-396 over the reversed list: tmp, in reverse order.
RECURSIVE PruneWalk(_, _, _)
PruneWalk(rev, used_as_input, tmp) ==
    IF rev = <<>> THEN tmp
    ELSE LET n == Head(rev)
         IN IF \A y \in Range(n.Ys) : y \in used_as_input
            THEN PruneWalk(Tail(rev), used_as_input \cup Range(n.Xs), Append(tmp, n))
            ELSE PruneWalk(Tail(rev), used_as_input, tmp)

\* The filter without line 396's reversed(): tmp as the walk left it.
PruneNotReversed(nodes, outs) == PruneWalk(Reverse(nodes), Range(outs), <<>>)

Prune(nodes, outs) == Reverse(PruneWalk(Reverse(nodes), Range(outs), <<>>))

\* dict.update(zip(Ks, Vs)) on a dict kept as a function.
Update(d, Ks, Vs) ==
    LET n == Min(Len(Ks), Len(Vs))
        keys == {Ks[i] : i \in 1..n}
        last(k) == CHOOSE i \in 1..n : Ks[i] = k /\ \A j \in (i + 1)..n : Ks[j] # k
    IN [k \in DOMAIN d \cup keys |-> IF k \in keys THEN Vs[last(k)] ELSE d[k]]

\* The calls a chain of unary layers makes on the tensor list Xs.
RECURSIVE ChainCall(_, _, _)
ChainCall(ls, Xs, next) ==
    IF ls = <<>> THEN [log |-> <<>>, Ys |-> Xs, next |-> next]
    ELSE LET ys == Fresh(next, 1)
             r == ChainCall(Tail(ls), ys, next + 1)
         IN [log |-> <<Node(Head(ls), Xs, ys)>> \o r.log, Ys |-> r.Ys, next |-> r.next]

\* The patched call f of one layer on the computed tensors Xs: what it
\* appends to executed_nodes (a container's entry after those of its body,
\* with the body's output tensor as its own), its result, the next new tensor.
PatchedCall(l, Xs, next) ==
    IF IsInputLayer(l)
    THEN [log |-> <<Node(l, Xs, Xs)>>, Ys |-> Xs, next |-> next]
    ELSE IF is_container(l)
    THEN LET r == ChainCall(Tail(ContainerBody), Xs, next)
         IN [log |-> <<Node(ContainerBody[1], Xs, Xs)>> \o r.log \o <<Node(l, Xs, r.Ys)>>,
             Ys |-> r.Ys, next |-> r.next]
    ELSE LET ys == Fresh(next, NumOutputs(l))
         IN [log |-> <<Node(l, Xs, ys)>>, Ys |-> ys, next |-> next + NumOutputs(l)]

\* model_copy(model.inputs): the framework runs the nodes in order, each
\* layer's call on the tensors computed for the node's inputs.
RECURSIVE RunGraph(_, _, _, _, _)
RunGraph(nodes, order, tensor_map, log, next) ==
    IF order = <<>> THEN [log |-> log, tensor_map |-> tensor_map, next |-> next]
    ELSE LET n == nodes[Head(order)]
             Xs == [k \in DOMAIN n.Xs |-> tensor_map[n.Xs[k]]]
             r == PatchedCall(n.layer, Xs, next)
         IN RunGraph(nodes, Tail(order), Update(tensor_map, n.Ys, r.Ys), log \o r.log, r.next)

Replay(nodes, ins, outs, next) ==
    LET r == RunGraph(nodes, RunOrder(nodes, outs), [x \in Range(ins) |-> x], <<>>, next)
    IN [executed_nodes |-> r.log,
        outputs |-> [k \in DOMAIN outs |-> r.tensor_map[outs[k]]],
        next |-> r.next]

layer_mapping(l, copied) == IF copied THEN copy_layer(l) ELSE l

\* Lines 349-368: apply the logged layers again, in logged order.
RECURSIVE Reapply(_, _, _, _, _)
Reapply(log, tensor_mapping, new_executed_nodes, next, copied) ==
    IF log = <<>>
    THEN [new_executed_nodes |-> new_executed_nodes, tensor_mapping |-> tensor_mapping]
    ELSE LET e == Head(log)
             layer == layer_mapping(e.layer, copied)
             new_Xs == IF IsInputLayer(layer) THEN e.Xs
                       ELSE [k \in DOMAIN e.Xs |-> tensor_mapping[e.Xs[k]]]
             new_Ys == IF IsInputLayer(layer) THEN e.Ys
                       ELSE Fresh(next, Len(e.Ys))
             used == IF IsInputLayer(layer) THEN 0 ELSE Len(e.Ys)
         IN Reapply(Tail(log), Update(tensor_mapping, e.Ys, new_Ys),
                    Append(new_executed_nodes, Node(layer, new_Xs, new_Ys)),
                    next + used, copied)

\* The largest tensor in a list of nodes.
MaxTensor(nodes) ==
    SetMax(UNION {Range(nodes[i].Xs) \cup Range(nodes[i].Ys) : i \in DOMAIN nodes})

\* The body of trace_model_execution with contains_container forced to
\* True: lines 312-372 and the filter, the record it returns.
ForcedReplay(nodes, ins, outs, next) ==
    LET r == Replay(nodes, ins, outs, next)
        a == Reapply(r.executed_nodes, [x \in Range(ins) |-> x], <<>>,
                     Max(next, MaxTensor(r.executed_nodes)), FALSE)
    IN Prune(a.new_executed_nodes, [k \in DOMAIN r.outputs |-> a.tensor_mapping[r.outputs[k]]])

\* ---------------------------------------------------------------- actions of the trace
CreateModel(outs) ==
    /\ pc = "build"
    /\ outs \in OutputLists
    /\ LET net == NetNodes(fwd_nodes, outs)
           ins == {fwd_nodes[i].Ys[1] : i \in {j \in net : IsInputLayer(fwd_nodes[j].layer)}}
       IN model_inputs' = SortedSeq(ins)
    /\ model_outputs' = outs
    /\ pc' = "model"
    /\ UNCHANGED <<reverse_vars, caller, exc, fwd_nodes, n_tensors, trace_vars>>

ModelHasContainer == contains_container(get_model_layers(fwd_nodes, model_outputs))

\* Another trace_model_execution, enclosing or concurrent, has one layer of
\* this model instrumented when this one is called: the container or the
\* first layer of its body.
EnclosingPatch(l) ==
    /\ pc = "model"
    /\ ModelHasContainer
    /\ l \in Containers \cup {ContainerBody[2]}
    /\ \A k \in AllLayers : call[k] = "orig"
    /\ call' = [call EXCEPT ![l] = "patched_elsewhere"]
    /\ UNCHANGED <<reverse_vars, control_vars, world_vars, entry_vars, monkey_patches,
                   layers, executed_nodes, raw_nodes, outputs>>

\* trace_model_execution(model, reapply_on_copied_layers) is called.  The
\* flag is read on the replay path only, after the patches were applied, so
\* it is set only for a model with a nested container and no layer patched.
CallTrace(flag) ==
    /\ pc = "model"
    /\ flag => ModelHasContainer /\ \A l \in AllLayers : call[l] = "orig"
    /\ pc' = "trace"
    /\ caller' = "trace_model_execution"
    /\ reapply_on_copied_layers' = flag
    /\ call_at_entry' = call
    /\ UNCHANGED <<reverse_vars, graph_vars, exc, world_vars, call, monkey_patches, layers,
                   executed_nodes, raw_nodes, outputs>>

\* Lines 288-293 and the else branch, lines 373-383.
TraceNative ==
    /\ pc = "trace"
    /\ ~contains_container(get_model_layers(fwd_nodes, model_outputs))
    /\ layers' = get_model_layers(fwd_nodes, model_outputs)
    /\ executed_nodes' = NativeExecutedNodes(fwd_nodes, model_outputs)
    /\ raw_nodes' = executed_nodes'
    /\ outputs' = model_outputs
    /\ pc' = "prune"
    /\ UNCHANGED <<reverse_vars, caller, exc, world_vars, entry_vars, call, monkey_patches>>

\* monkey_patches built after the patches were applied: it saves the patch.
SavedMethodAfterPatch(c, l) == "patched"

\* getattr(layer, "call") when monkey_patches is built (line 315).
SavedMethod(c, l) == c[l]

\* The layers' call attributes after the loop of line 333 has patched the
\* first n layers.
Patched(c, ls, n) ==
    [l \in DOMAIN c |-> IF \E k \in 1..n : ls[k] = l THEN "patched" ELSE c[l]]

\* Lines 288-334: the layers, monkey_patches, and the patches applied; patch
\* raises at the first layer whose call is patched already.
TracePatch ==
    /\ pc = "trace"
    /\ contains_container(get_model_layers(fwd_nodes, model_outputs))
    /\ LET ls == get_model_layers(fwd_nodes, model_outputs)
           bad == {k \in DOMAIN ls : call[ls[k]] # "orig"}
           first == CHOOSE k \in bad : \A j \in bad : k <= j
       IN /\ layers' = ls
          /\ monkey_patches' =
                [k \in DOMAIN ls |-> [layer |-> ls[k], old_method |-> SavedMethod(call, ls[k])]]
          /\ IF bad = {}
             THEN /\ call' = Patched(call, ls, Len(ls))
                  /\ pc' = "patched"
                  /\ exc' = ""
             ELSE /\ call' = Patched(call, ls, first - 1)
                  /\ pc' = "finally"
                  /\ exc' = "Exception"
    /\ executed_nodes' = <<>>
    /\ UNCHANGED <<reverse_vars, caller, world_vars, entry_vars, raw_nodes, outputs>>

\* Lines 337-339: the forward replay, which fills executed_nodes.
TraceReplay ==
    /\ pc = "patched"
    /\ LET r == Replay(fwd_nodes, model_inputs, model_outputs, n_tensors)
       IN /\ executed_nodes' = r.executed_nodes
          /\ outputs' = r.outputs
    /\ pc' = "finally"
    /\ UNCHANGED <<reverse_vars, caller, exc, world_vars, entry_vars, call,
                   monkey_patches, layers, raw_nodes>>

\* The forward replay raises (the framework, or a layer's call, fails).
TraceReplayFails ==
    /\ pc = "patched"
    /\ exc' = "Exception"
    /\ pc' = "finally"
    /\ UNCHANGED <<reverse_vars, caller, world_vars, trace_vars>>

\* Lines 342-343: setattr(layer, "call", old_method) for every entry.
Restored(c, mp) ==
    [l \in DOMAIN c |->
        IF \E k \in DOMAIN mp : mp[k].layer = l
        THEN mp[CHOOSE k \in DOMAIN mp :
                    mp[k].layer = l /\ \A j \in DOMAIN mp : mp[j].layer = l => j <= k].old_method
        ELSE c[l]]

\* The finally block; the exception in flight, if any, leaves the function.
TraceRestore ==
    /\ pc = "finally"
    /\ call' = Restored(call, monkey_patches)
    /\ pc' = IF exc = "" THEN "reapply" ELSE "raised"
    /\ UNCHANGED <<reverse_vars, caller, exc, world_vars, entry_vars, monkey_patches,
                   layers, executed_nodes, raw_nodes, outputs>>

\* Lines 348-372.
TraceReapply ==
    /\ pc = "reapply"
    /\ LET r == Reapply(executed_nodes, [x \in Range(model_inputs) |-> x], <<>>,
                        Max(n_tensors, MaxTensor(executed_nodes)), reapply_on_copied_layers)
       IN /\ executed_nodes' = r.new_executed_nodes
          /\ raw_nodes' = r.new_executed_nodes
          /\ outputs' = [k \in DOMAIN outputs |-> r.tensor_mapping[outputs[k]]]
    /\ layers' = [k \in DOMAIN layers |-> layer_mapping(layers[k], reapply_on_copied_layers)]
    /\ pc' = "prune"
    /\ UNCHANGED <<reverse_vars, caller, exc, world_vars, entry_vars, call, monkey_patches>>

\* Lines 390-398: the filter and the return.
TracePrune ==
    /\ pc = "prune"
    /\ executed_nodes' = Prune(executed_nodes, outputs)
    /\ pc' = IF caller = "reverse_model" THEN "reverse_init"
             ELSE IF caller = "get_model_execution_trace" THEN "enrich"
             ELSE "traced"
    /\ UNCHANGED <<reverse_vars, caller, exc, world_vars, entry_vars, call,
                   monkey_patches, layers, raw_nodes, outputs>>

Build ==
    \/ Input
    \/ \E l \in UnaryLayers \cup MergeLayers \cup SplitLayers :
          \E Xs \in ArgLists(l) : ApplyLayer(l, Xs)
    \/ \E outs \in OutputLists : CreateModel(outs)

BuildNested ==
    \/ Build
    \/ \E l \in Containers : \E Xs \in ArgLists(l) : ApplyLayer(l, Xs)
    \/ \E l \in Containers \cup {ContainerBody[2]} : EnclosingPatch(l)

NextTrace ==
    \/ BuildNested
    \/ \E flag \in BOOLEAN : CallTrace(flag)
    \/ TraceNative
    \/ TracePatch
    \/ TraceReplay
    \/ TraceReplayFails
    \/ TraceRestore
    \/ TraceReapply
    \/ TracePrune

SpecTrace == Init /\ [][NextTrace]_vars


\* ---------------------------------------------------------------- get_model_execution_trace
\* A node id: None as the empty tuple, the id k as <<k>>.
None == <<>>

\* Lines 408-417: the trace with node ids, None for the InputLayers.
RECURSIVE EnrichWithNids(_, _)
EnrichWithNids(trace, current_nid) ==
    IF trace = <<>> THEN <<>>
    ELSE LET n == Head(trace)
         IN IF IsInputLayer(n.layer)
            THEN <<[nid |-> None, layer |-> n.layer, Xs |-> n.Xs, Ys |-> n.Ys]>>
                    \o EnrichWithNids(Tail(trace), current_nid)
            ELSE <<[nid |-> <<current_nid>>, layer |-> n.layer, Xs |-> n.Xs, Ys |-> n.Ys]>>
                    \o EnrichWithNids(Tail(trace), current_nid + 1)

\* Lines 424-429 with the list of consumers replaced instead of appended to.
RECURSIVE RegisterInputsLastOnly(_, _, _)
RegisterInputsLastOnly(inputs_to_node, Xs, nid) ==
    IF Xs = <<>> THEN inputs_to_node
    ELSE RegisterInputsLastOnly(SetKey(inputs_to_node, Head(Xs), <<nid>>), Tail(Xs), nid)

\* Lines 424-429: the node id appended to the consumers of each input.
RECURSIVE RegisterInputs(_, _, _)
RegisterInputs(inputs_to_node, Xs, nid) ==
    IF Xs = <<>> THEN inputs_to_node
    ELSE LET X == Head(Xs)
         IN RegisterInputs(
                SetKey(inputs_to_node, X,
                       IF X \in DOMAIN inputs_to_node
                       THEN Append(inputs_to_node[X], nid)
                       ELSE <<nid>>),
                Tail(Xs), nid)

\* The test of line 434, which guards the raise of line 435.
HasCreator(Y, inputs_to_node, outputs_to_node) == Y \in DOMAIN inputs_to_node

\* Lines 432-436: the node id registered as the producer of each output.
RECURSIVE RegisterOutputs(_, _, _, _)
RegisterOutputs(inputs_to_node, outputs_to_node, Ys, nid) ==
    IF Ys = <<>> THEN [err |-> "", outputs_to_node |-> outputs_to_node]
    ELSE IF HasCreator(Head(Ys), inputs_to_node, outputs_to_node)
    THEN [err |-> "Exception", outputs_to_node |-> outputs_to_node]
    ELSE RegisterOutputs(inputs_to_node, SetKey(outputs_to_node, Head(Ys), nid), Tail(Ys), nid)

\* Lines 420-436: the lookups from a tensor to its consumers and producer.
RECURSIVE Lookups(_, _, _, _)
Lookups(trace, keep, inputs_to_node, outputs_to_node) ==
    IF trace = <<>>
    THEN [err |-> "", inputs_to_node |-> inputs_to_node, outputs_to_node |-> outputs_to_node]
    ELSE LET e == Head(trace)
             i2n == IF e.nid # None THEN RegisterInputs(inputs_to_node, e.Xs, e.nid)
                    ELSE inputs_to_node
             r == IF keep \/ e.nid # None
                  THEN RegisterOutputs(i2n, outputs_to_node, e.Ys, e.nid)
                  ELSE [err |-> "", outputs_to_node |-> outputs_to_node]
         IN IF r.err # ""
            THEN [err |-> r.err, inputs_to_node |-> i2n, outputs_to_node |-> r.outputs_to_node]
            ELSE Lookups(Tail(trace), keep, i2n, r.outputs_to_node)

\* Line 439: nid_to_nodes, the last entry of each id.
nid_to_nodes(trace, nid) ==
    trace[CHOOSE k \in DOMAIN trace :
            trace[k].nid = nid /\ \A j \in DOMAIN trace : trace[j].nid = nid => j <= k]

\* The members of a list other than None.
NotNone(nids) ==
    LET keep == SortedSeq({k \in DOMAIN nids : nids[k] # None})
    IN [k \in DOMAIN keep |-> nids[keep[k]]]

\* Lines 441-471: the entry of one node; an InputLayer's output no node
\* consumes has no key in inputs_to_node.
Entry(trace, e, inputs_to_node, outputs_to_node) ==
    LET layers_of(nids) == [k \in DOMAIN nids |-> nid_to_nodes(trace, nids[k]).layer]
        Xs_nids == IF IsInputLayer(e.layer) THEN <<>>
                   ELSE [k \in DOMAIN e.Xs |->
                            IF e.Xs[k] \in DOMAIN outputs_to_node
                            THEN outputs_to_node[e.Xs[k]] ELSE None]
        Ys_nids == [k \in DOMAIN e.Ys |->
                        IF e.Ys[k] \in DOMAIN inputs_to_node
                        THEN inputs_to_node[e.Ys[k]] ELSE <<None>>]
    IN IF IsInputLayer(e.layer) /\ ~(Range(e.Ys) \subseteq DOMAIN inputs_to_node)
       THEN [err |-> "KeyError: inputs_to_node", entry |-> <<>>]
       ELSE [err |-> "",
             entry |-> [nid |-> e.nid, layer |-> e.layer, Xs |-> e.Xs, Ys |-> e.Ys,
                        Xs_nids |-> Xs_nids,
                        Ys_nids |-> Ys_nids,
                        Xs_layers |-> IF IsInputLayer(e.layer) THEN <<>>
                                      ELSE layers_of(NotNone(Xs_nids)),
                        Ys_layers |-> [k \in DOMAIN Ys_nids |-> layers_of(NotNone(Ys_nids[k]))]]]

RECURSIVE Entries(_, _, _, _, _)
Entries(trace, rest, inputs_to_node, outputs_to_node, tmp) ==
    IF rest = <<>> THEN [err |-> "", execution_trace |-> tmp]
    ELSE LET r == Entry(trace, Head(rest), inputs_to_node, outputs_to_node)
         IN IF r.err # "" THEN [err |-> r.err, execution_trace |-> <<>>]
            ELSE Entries(trace, Tail(rest), inputs_to_node, outputs_to_node, Append(tmp, r.entry))

\* Lines 474-477.
WithoutInputLayers(trace) ==
    LET keep == SortedSeq({k \in DOMAIN trace : trace[k].nid # None})
    IN [k \in DOMAIN keep |-> trace[keep[k]]]

\* Lines 408-479, on the record trace_model_execution returned.
get_model_execution_trace(record, keep) ==
    LET trace == EnrichWithNids(record, 0)
        l == Lookups(trace, keep, <<>>, <<>>)
        r == Entries(trace, trace, l.inputs_to_node, l.outputs_to_node, <<>>)
    IN IF l.err # "" THEN [err |-> l.err, execution_trace |-> <<>>]
       ELSE IF r.err # "" THEN r
       ELSE [err |-> "",
             execution_trace |-> IF keep THEN r.execution_trace
                                 ELSE WithoutInputLayers(r.execution_trace)]

\* ---------------------------------------------------------------- actions of get_model_execution_trace
\* get_model_execution_trace(model, keep_input_layers,
\* reapply_on_copied_layers) is called, and calls trace_model_execution
\* (lines 404-406).
CallGetTrace(keep, flag) ==
    /\ pc = "model"
    /\ n_tensors <= MaxGraphTensors
    /\ flag => ModelHasContainer
    /\ pc' = "trace"
    /\ caller' = "get_model_execution_trace"
    /\ keep_input_layers' = keep
    /\ reapply_on_copied_layers' = flag
    /\ call_at_entry' = call
    /\ UNCHANGED <<reverse_vars, execution_trace, container_layers, exc, world_vars, call,
                   monkey_patches, layers, executed_nodes, raw_nodes, outputs>>

\* Lines 408-479.
GetModelExecutionTrace ==
    /\ pc = "enrich"
    /\ LET r == get_model_execution_trace(executed_nodes, keep_input_layers)
       IN /\ execution_trace' = r.execution_trace
          /\ exc' = r.err
          /\ pc' = IF r.err = "" THEN "graph" ELSE "raised"
    /\ UNCHANGED <<reverse_vars, caller, world_vars, reapply_on_copied_layers, call_at_entry,
                   keep_input_layers, container_layers, call, monkey_patches, layers,
                   executed_nodes, raw_nodes, outputs>>

NextGraph ==
    \/ Build
    \/ \E l \in Containers : \E Xs \in ArgLists(l) : ApplyLayer(l, Xs)
    \/ \E keep, flag \in BOOLEAN : CallGetTrace(keep, flag)
    \/ TraceNative
    \/ TracePatch
    \/ TraceReplay
    \/ TraceRestore
    \/ TraceReapply
    \/ TracePrune
    \/ GetModelExecutionTrace

SpecGraph == Init /\ [][NextGraph]_vars

\* ---------------------------------------------------------------- get_bottleneck_tensors
\* forward_connections: each tensor some node other than an InputLayer's
\* consumes, with the output tensors of the nodes that consume it.
forward_connections(execution_list) ==
    LET cons == {i \in DOMAIN execution_list : ~IsInputLayer(execution_list[i].layer)}
        keys == UNION {Range(execution_list[i].Xs) : i \in cons}
    IN [x \in keys |->
            UNION {Range(execution_list[i].Ys) :
                        i \in {j \in cons : x \in Range(execution_list[j].Xs)}}]

\* Lines 572-576 without the test of len(Xs).
MarksWhenClosed(open_connections, Xs) == open_connections = {}

\* Lines 572-576 without the test of len(open_connections).
MarksSingleInput(open_connections, Xs) == Len(Xs) = 1

\* Lines 572-576: the node's first input and first output are added to ret.
MarksBottleneck(open_connections, Xs) == open_connections = {} /\ Len(Xs) = 1

\* The loop of lines 561-581 over the rest of the execution list.
RECURSIVE BottleneckWalk(_, _, _, _, _)
BottleneckWalk(list, fc, outs, open_connections, ret) ==
    IF list = <<>> THEN [err |-> "", ret |-> ret]
    ELSE LET n == Head(list)
             open1 == open_connections \ Range(n.Ys)
             ret1 == IF MarksBottleneck(open1, n.Xs)
                     THEN ret \cup {n.Xs[1], n.Ys[1]}
                     ELSE ret
             inner == {y \in Range(n.Ys) : y \notin Range(outs)}
         IN IF IsInputLayer(n.layer)
            THEN BottleneckWalk(Tail(list), fc, outs, open_connections, ret)
            ELSE IF ~(Range(n.Ys) \subseteq open_connections)
            THEN [err |-> "AssertionError", ret |-> ret]
            ELSE IF ~(inner \subseteq DOMAIN fc)
            THEN [err |-> "KeyError: forward_connections", ret |-> ret1]
            ELSE BottleneckWalk(Tail(list), fc, outs,
                                open1 \cup UNION {fc[y] : y \in inner}, ret1)

get_bottleneck_tensors(inputs, outs, execution_list) ==
    LET fc == forward_connections(execution_list)
    IN IF ~(Range(inputs) \subseteq DOMAIN fc)
       THEN [err |-> "KeyError: forward_connections", ret |-> {}]
       ELSE BottleneckWalk(execution_list, fc, outs,
                           UNION {fc[x] : x \in Range(inputs)}, {})

\* ---------------------------------------------------------------- the table of reversed tensors
\* A second contribution replaces the first instead of joining it.
add_reversed_tensor_overwrite(rt, reverse_id, i, X, reversed_X) ==
    [err |-> "",
     reversed_tensors |-> SetKey(rt, X, [id |-> <<reverse_id, i>>, tensor |-> reversed_X])]

\* Lines 663-675 without the del of line 673: the single contribution kept
\* beside the list.
add_reversed_tensor_keeps_single(rt, reverse_id, i, X, reversed_X) ==
    IF X \notin DOMAIN rt
    THEN [err |-> "",
          reversed_tensors |-> SetKey(rt, X, [id |-> <<reverse_id, i>>, tensor |-> reversed_X])]
    ELSE LET tmp == rt[X]
         IN IF "tensor" \in DOMAIN tmp /\ "tensors" \in DOMAIN tmp
            THEN [err |-> "Exception", reversed_tensors |-> rt]
            ELSE IF "tensor" \in DOMAIN tmp
            THEN [err |-> "",
                  reversed_tensors |->
                      SetKey(rt, X, SetKey(tmp, "tensors", <<tmp["tensor"], reversed_X>>))]
            ELSE [err |-> "",
                  reversed_tensors |->
                      SetKey(rt, X, SetKey(tmp, "tensors", Append(tmp["tensors"], reversed_X)))]

\* Lines 663-675.
add_reversed_tensor(rt, reverse_id, i, X, reversed_X) ==
    IF X \notin DOMAIN rt
    THEN [err |-> "",
          reversed_tensors |-> SetKey(rt, X, [id |-> <<reverse_id, i>>, tensor |-> reversed_X])]
    ELSE LET tmp == rt[X]
         IN IF "tensor" \in DOMAIN tmp /\ "tensors" \in DOMAIN tmp
            THEN [err |-> "Exception", reversed_tensors |-> rt]
            ELSE IF "tensor" \in DOMAIN tmp
            THEN [err |-> "",
                  reversed_tensors |->
                      SetKey(rt, X, DelKey(SetKey(tmp, "tensors", <<tmp["tensor"], reversed_X>>),
                                           "tensor"))]
            ELSE [err |-> "",
                  reversed_tensors |->
                      SetKey(rt, X, SetKey(tmp, "tensors", Append(tmp["tensors"], reversed_X)))]

\* Lines 677-679: the loop over zip(tensors_list, reversed_tensors_list).
RECURSIVE AddLoop(_, _, _, _, _)
AddLoop(rt, reverse_id, i, tensors_list, reversed_tensors_list) ==
    IF tensors_list = <<>> \/ reversed_tensors_list = <<>>
    THEN [err |-> "", reversed_tensors |-> rt]
    ELSE LET r == add_reversed_tensor(rt, reverse_id, i, Head(tensors_list),
                                      Head(reversed_tensors_list))
         IN IF r.err # "" THEN r
            ELSE AddLoop(r.reversed_tensors, reverse_id, i + 1, Tail(tensors_list),
                         Tail(reversed_tensors_list))

add_reversed_tensors(rt, reverse_id, tensors_list, reversed_tensors_list) ==
    AddLoop(rt, reverse_id, 0, tensors_list, reversed_tensors_list)

\* ilayers.Clip(lo, hi): the value clipped into [lo, hi].
Clip(lo, hi, v) == Max(lo, Min(hi, v))

Sign(v) == IF v > 0 THEN 1 ELSE IF v < 0 THEN 0 - 1 ELSE 0

\* ilayers.Project(range): the value divided by its absolute maximum, then
\* mapped from [-1, 1] into the range.
Project(range, v) ==
    IF range.mode = "True" THEN Sign(v)
    ELSE range.lo + ((Sign(v) + 1) * (range.hi - range.lo)) \div 2

\* Lines 690-697 with the clip applied before the projection.
PostProcessClipFirst(final_tensor, tensor, bn, a) ==
    LET clipped == IF a.clip_all_reversed_tensors.on
                   THEN Clip(a.clip_all_reversed_tensors.lo,
                             a.clip_all_reversed_tensors.hi, final_tensor)
                   ELSE final_tensor
    IN IF a.project_bottleneck_tensors.mode # "False" /\ tensor \in bn
       THEN Project(a.project_bottleneck_tensors, clipped)
       ELSE clipped

\* Lines 690-697: the projection of a bottleneck tensor, then the clip.
PostProcess(final_tensor, tensor, bn, a) ==
    LET projected == IF a.project_bottleneck_tensors.mode # "False" /\ tensor \in bn
                     THEN Project(a.project_bottleneck_tensors, final_tensor)
                     ELSE final_tensor
    IN IF a.clip_all_reversed_tensors.on
       THEN Clip(a.clip_all_reversed_tensors.lo, a.clip_all_reversed_tensors.hi, projected)
       ELSE projected

\* Lines 685-688: keras.layers.Add() of the list, or the one contribution.
Aggregate(tmp) ==
    IF "tensor" \notin DOMAIN tmp THEN SeqSum(tmp["tensors"]) ELSE tmp["tensor"]

\* Lines 681-701 without the test of line 684: the final value computed at
\* every call.
get_reversed_tensor_uncached(rt, tensor, bn, a) ==
    IF tensor \notin DOMAIN rt
    THEN [err |-> "KeyError: reversed_tensors", reversed_tensors |-> rt, final_tensor |-> 0]
    ELSE LET tmp == rt[tensor]
             final_tensor == PostProcess(Aggregate(tmp), tensor, bn, a)
         IN [err |-> "",
             reversed_tensors |-> SetKey(rt, tensor, SetKey(tmp, "final_tensor", final_tensor)),
             final_tensor |-> final_tensor]

\* Lines 681-701.
get_reversed_tensor(rt, tensor, bn, a) ==
    IF tensor \notin DOMAIN rt
    THEN [err |-> "KeyError: reversed_tensors", reversed_tensors |-> rt, final_tensor |-> 0]
    ELSE LET tmp == rt[tensor]
         IN IF "final_tensor" \notin DOMAIN tmp
            THEN LET final_tensor == PostProcess(Aggregate(tmp), tensor, bn, a)
                 IN [err |-> "",
                     reversed_tensors |-> SetKey(rt, tensor, SetKey(tmp, "final_tensor", final_tensor)),
                     final_tensor |-> final_tensor]
            ELSE [err |-> "", reversed_tensors |-> rt, final_tensor |-> tmp["final_tensor"]]

\* [get_reversed_tensor(t) for t in tensors]: the values, left to right.
RECURSIVE GetLoop(_, _, _, _, _)
GetLoop(rt, tensors, bn, a, values) ==
    IF tensors = <<>> THEN [err |-> "", reversed_tensors |-> rt, values |-> values]
    ELSE LET r == get_reversed_tensor(rt, Head(tensors), bn, a)
         IN IF r.err # ""
            THEN [err |-> r.err, reversed_tensors |-> r.reversed_tensors, values |-> values]
            ELSE GetLoop(r.reversed_tensors, Tail(tensors), bn, a, Append(values, r.final_tensor))

\* ---------------------------------------------------------------- the mappings given to reverse_model
\* head_mapping: None (line 635: the identity) or a function that maps every
\* output tensor to ones.  The value of a tensor X itself is its number.
HeadMapping(hm, X) == IF hm = "None" THEN X ELSE 1

\* reverse_mappings(layer): "identity" resolves every layer to the function
\* identity_fn; "stateful" resolves the layers of one input and one output
\* to the class ScaleMapping, a subclass of ReverseMappingBase, and no other;
\* "first_input" resolves the merge layers to first_input_fn, and no other.
ReverseMappings(rm, layer) ==
    IF rm = "identity" THEN "identity_fn"
    ELSE IF rm = "first_input"
    THEN (IF \E o \in MergeLayers : layer = o \/ layer = copy_layer(o)
          THEN "first_input_fn" ELSE "None")
    ELSE IF \E o \in UnaryLayers \cup {ContainerBody[2], ContainerBody[3]} :
                layer = o \/ layer = copy_layer(o)
    THEN "ScaleMapping"
    ELSE "None"

\* inspect.isclass(m) and issubclass(m, ReverseMappingBase)
IsMappingClass(m) == m = "ScaleMapping"

\* A mapping as initialized_reverse_mappings holds it: a function, the bound
\* method apply of the obj-th object constructed, or None.
Mapping(name, obj) == [name |-> name, obj |-> obj]

\* A mapping of None taken for one that returns no reversed tensor.
MappingCallLenient(m, Xs, Ys, reversed_Ys) ==
    [err |-> "",
     reversed_Xs |->
        IF m.name = "None" THEN <<>>
        ELSE IF m.name = "first_input_fn" THEN <<SeqSum(reversed_Ys)>>
        ELSE [k \in DOMAIN Xs |->
                CASE m.name = "identity_fn" -> SeqSum(reversed_Ys)
                  [] m.name = "negate_fn" -> 0 - SeqSum(reversed_Ys)
                  [] m.name = "ScaleMapping.apply" -> 2 * SeqSum(reversed_Ys)]]

\* The call reverse_mapping(Xs, Ys, reversed_Ys, state): identity_fn hands
\* every input the sum of the reversed outputs, negate_fn its negation,
\* ScaleMapping.apply twice the sum; first_input_fn returns one tensor, the
\* sum, whatever the number of inputs.  Calling None raises TypeError.
MappingCall(m, Xs, Ys, reversed_Ys) ==
    IF m.name = "None" THEN [err |-> "TypeError", reversed_Xs |-> <<>>]
    ELSE [err |-> "",
          reversed_Xs |->
            IF m.name = "first_input_fn" THEN <<SeqSum(reversed_Ys)>>
            ELSE [k \in DOMAIN Xs |->
                    CASE m.name = "identity_fn" -> SeqSum(reversed_Ys)
                      [] m.name = "negate_fn" -> 0 - SeqSum(reversed_Ys)
                      [] m.name = "ScaleMapping.apply" -> 2 * SeqSum(reversed_Ys)]]

\* The loop of line 718 taken over the nodes: a layer once per node.
LayersPerNode(ls, nodes) == [k \in DOMAIN nodes |-> nodes[k].layer]

\* The layers the loop of line 718 iterates over.
LayersToInitialize(ls, nodes) == ls

\* Lines 717-738 for the rest of the layers.
RECURSIVE InitMappings(_, _, _, _)
InitMappings(ls, a, irm, cons) ==
    IF ls = <<>> THEN [initialized_reverse_mappings |-> irm, constructed |-> cons]
    ELSE LET layer == Head(ls)
             given == ReverseMappings(a.reverse_mappings, layer)
             reverse_mapping == IF given = "None" THEN a.default_reverse_mapping ELSE given
         IN IF IsMappingClass(reverse_mapping)
            THEN InitMappings(Tail(ls), a,
                              SetKey(irm, layer, Mapping("ScaleMapping.apply", Len(cons) + 1)),
                              Append(cons, layer))
            ELSE InitMappings(Tail(ls), a, SetKey(irm, layer, Mapping(reverse_mapping, 0)), cons)

\* Line 750 without head_mapping: the outputs themselves.
SeedWithOutputs(hm, outs) == outs

\* Line 750: [head_mapping(tmp) for tmp in outputs].
Seed(hm, outs) == [k \in DOMAIN outs |-> HeadMapping(hm, outs[k])]

\* ---------------------------------------------------------------- actions of reverse_model
\* The arguments reverse_model is called with.
ReverseConfigs ==
    {Arguments("None", c[1], c[2], m[1], m[2]) :
        c \in {<<ClipFalse, ProjectFalse>>, <<ClipRange(0, 1), ProjectFalse>>,
               <<ClipFalse, ProjectTrue>>, <<ClipRange(0, 1), ProjectRange(0, 2)>>},
        m \in {<<"identity", "None">>, <<"stateful", "negate_fn">>, <<"stateful", "None">>}}
    \cup {Arguments("ones", ClipFalse, ProjectFalse, "identity", "None"),
          Arguments("None", ClipFalse, ProjectFalse, "first_input", "None"),
          Arguments("None", ClipFalse, ProjectFalse, "first_input", "negate_fn")}

\* reverse_model(model, ...) is called, and calls trace_model_execution
\* (lines 707-709) with reapply_on_copied_layers at its default.
CallReverse(a) ==
    /\ pc = "model"
    /\ n_tensors <= MaxReverseTensors
    /\ a \in ReverseConfigs
    /\ pc' = "trace"
    /\ caller' = "reverse_model"
    /\ args' = a
    /\ reapply_on_copied_layers' = FALSE
    /\ call_at_entry' = call
    /\ UNCHANGED <<graph_vars, exc, world_vars, call, monkey_patches, layers, executed_nodes,
                   raw_nodes, outputs, reversed_tensors, bottleneck_tensors,
                   initialized_reverse_mappings, enum_nid, reversed_input_tensors,
                   constructed, applied>>

\* Lines 710-750: the mappings, the bottleneck tensors, the seeds.
ReverseInit ==
    /\ pc = "reverse_init"
    /\ LET m == InitMappings(LayersToInitialize(layers, executed_nodes), args, <<>>, <<>>)
           b == IF args.project_bottleneck_tensors.mode # "False"
                THEN get_bottleneck_tensors(model_inputs, outputs, executed_nodes)
                ELSE [err |-> "", ret |-> {}]
           s == add_reversed_tensors(<<>>, 0 - 1, outputs, Seed(args.head_mapping, outputs))
       IN /\ initialized_reverse_mappings' = m.initialized_reverse_mappings
          /\ constructed' = m.constructed
          /\ IF b.err # ""
             THEN /\ exc' = b.err
                  /\ pc' = "raised"
                  /\ UNCHANGED <<bottleneck_tensors, reversed_tensors>>
             ELSE /\ bottleneck_tensors' = b.ret
                  /\ reversed_tensors' = s.reversed_tensors
                  /\ exc' = s.err
                  /\ pc' = IF s.err = "" THEN "reverse_walk" ELSE "raised"
    /\ enum_nid' = 0
    /\ UNCHANGED <<caller, world_vars, trace_vars, args, reversed_input_tensors, applied>>

num_input_layers == Cardinality({i \in DOMAIN executed_nodes : IsInputLayer(executed_nodes[i].layer)})

len_execution_list_wo_inputs_layers == Len(executed_nodes) - num_input_layers

\* The execution list walked as traced, first node first.
execution_list_not_reversed(execution_list) == execution_list

\* Line 714: reversed(execution_list).
reverse_execution_list(execution_list) == Reverse(execution_list)

\* Every node taken for a node of the graph.
NeverSkipped(Ys, rt) == FALSE

\* Line 763: some output of the node has no entry in reversed_tensors.
NotInGraph(Ys, rt) == ~(Range(Ys) \subseteq DOMAIN rt)

\* One iteration of the loop of lines 753-780.
ReverseStep ==
    /\ pc = "reverse_walk"
    /\ enum_nid < Len(executed_nodes)
    /\ LET n == reverse_execution_list(executed_nodes)[enum_nid + 1]
           nid == len_execution_list_wo_inputs_layers - enum_nid - 1
           g == GetLoop(reversed_tensors, n.Ys, bottleneck_tensors, args, <<>>)
           reverse_mapping == initialized_reverse_mappings[n.layer]
           c == MappingCall(reverse_mapping, n.Xs, n.Ys, g.values)
           r == add_reversed_tensors(g.reversed_tensors, nid, n.Xs, c.reversed_Xs)
       IN IF IsInputLayer(n.layer) \/ (~is_container(n.layer) /\ NotInGraph(n.Ys, reversed_tensors))
          THEN /\ pc' = "reverse_walk"
               /\ UNCHANGED <<exc, reversed_tensors, applied>>
          ELSE IF is_container(n.layer)
          THEN /\ pc' = "raised"
               /\ exc' = "Exception"
               /\ UNCHANGED <<reversed_tensors, applied>>
          ELSE IF g.err # "" \/ c.err # ""
          THEN /\ pc' = "raised"
               /\ exc' = IF g.err # "" THEN g.err ELSE c.err
               /\ reversed_tensors' = g.reversed_tensors
               /\ UNCHANGED applied
          ELSE /\ reversed_tensors' = r.reversed_tensors
               /\ exc' = r.err
               /\ pc' = IF r.err = "" THEN "reverse_walk" ELSE "raised"
               /\ applied' = Append(applied,
                                    [nid |-> nid, node |-> n, mapping |-> reverse_mapping,
                                     reversed_Ys |-> g.values, reversed_Xs |-> c.reversed_Xs])
    /\ enum_nid' = enum_nid + 1
    /\ UNCHANGED <<caller, world_vars, trace_vars, args, bottleneck_tensors,
                   initialized_reverse_mappings, reversed_input_tensors, constructed>>

\* Lines 783-788: the reversed tensors of model.inputs.
ReverseReturn ==
    /\ pc = "reverse_walk"
    /\ enum_nid = Len(executed_nodes)
    /\ LET g == GetLoop(reversed_tensors, model_inputs, bottleneck_tensors, args, <<>>)
       IN /\ reversed_tensors' = g.reversed_tensors
          /\ exc' = g.err
          /\ IF g.err = ""
             THEN /\ reversed_input_tensors' = g.values
                  /\ pc' = "reversed"
             ELSE /\ UNCHANGED reversed_input_tensors
                  /\ pc' = "raised"
    /\ UNCHANGED <<caller, world_vars, trace_vars, args, bottleneck_tensors,
                   initialized_reverse_mappings, enum_nid, constructed, applied>>

NextReverse ==
    \/ Build
    \/ \E a \in ReverseConfigs : CallReverse(a)
    \/ TraceNative
    \/ TracePrune
    \/ ReverseInit
    \/ ReverseStep
    \/ ReverseReturn

SpecReverse == Init /\ [][NextReverse]_vars

\* ---------------------------------------------------------------- the table under arbitrary calls
\* The contract of the closures add_reversed_tensors and get_reversed_tensor
\* taken by themselves: calls in any order, where reverse_model makes them in
\* the order of its walk.  The tensors, the values and the arguments of the
\* calls are drawn from the sets below.
TableTensors == {1, 2}

TableValues == {0 - 1, 2}

TableLists == {<<1>>, <<2>>, <<1, 2>>}

TableConfigs ==
    {Arguments("None", ClipFalse, ProjectFalse, "identity", "None"),
     Arguments("None", ClipRange(0, 1), ProjectFalse, "identity", "None"),
     Arguments("None", ClipFalse, ProjectRange(0, 2), "identity", "None"),
     Arguments("None", ClipRange(0, 1), ProjectRange(0, 2), "identity", "None")}

\* The contributions an entry holds.
Contributions(tmp) == IF "tensor" \in DOMAIN tmp THEN <<tmp["tensor"]>> ELSE tmp["tensors"]

Finalized(rt) == {X \in DOMAIN rt : "final_tensor" \in DOMAIN rt[X]}

InitTable ==
    /\ pc = "table"
    /\ caller = "reverse_model"
    /\ exc = ""
    /\ fwd_nodes = <<>>
    /\ n_tensors = 0
    /\ model_inputs = <<>>
    /\ model_outputs = <<>>
    /\ reapply_on_copied_layers = FALSE
    /\ call_at_entry = [l \in AllLayers |-> "orig"]
    /\ call = [l \in AllLayers |-> "orig"]
    /\ monkey_patches = <<>>
    /\ layers = <<>>
    /\ executed_nodes = <<>>
    /\ raw_nodes = <<>>
    /\ outputs = <<>>
    /\ args \in TableConfigs
    /\ reversed_tensors = <<>>
    /\ bottleneck_tensors = {1}
    /\ initialized_reverse_mappings = <<>>
    /\ enum_nid = 0
    /\ reversed_input_tensors = <<>>
    /\ constructed = <<>>
    /\ applied = <<>>
    /\ keep_input_layers = FALSE
    /\ execution_trace = <<>>
    /\ container_layers = <<>>

\* add_reversed_tensors(reverse_id, Xs, values).  applied holds the last
\* call: the tensors of the list that were finalized when it was made.
TableAdd(reverse_id, Xs, values) ==
    /\ pc = "table"
    /\ Len(values) = Len(Xs)
    /\ \A X \in Range(Xs) \cap DOMAIN reversed_tensors :
            Len(Contributions(reversed_tensors[X])) < MaxContributions
    /\ LET r == add_reversed_tensors(reversed_tensors, reverse_id, Xs, values)
       IN /\ reversed_tensors' = r.reversed_tensors
          /\ exc' = r.err
    /\ applied' = <<[op |-> "add_reversed_tensors", tensors |-> Xs,
                     finalized |-> Range(Xs) \cap Finalized(reversed_tensors)]>>
    /\ UNCHANGED <<pc, caller, world_vars, trace_vars, args, bottleneck_tensors,
                   initialized_reverse_mappings, enum_nid, reversed_input_tensors,
                   constructed>>

\* get_reversed_tensor(X).
TableGet(X) ==
    /\ pc = "table"
    /\ LET r == get_reversed_tensor(reversed_tensors, X, bottleneck_tensors, args)
       IN /\ reversed_tensors' = r.reversed_tensors
          /\ exc' = r.err
          /\ reversed_input_tensors' = IF r.err = "" THEN <<r.final_tensor>> ELSE <<>>
    /\ applied' = <<[op |-> "get_reversed_tensor", tensors |-> <<X>>, finalized |-> {}]>>
    /\ UNCHANGED <<pc, caller, world_vars, trace_vars, args, bottleneck_tensors,
                   initialized_reverse_mappings, enum_nid, constructed>>

NextTable ==
    \/ \E reverse_id \in {0 - 1, 0}, Xs \in TableLists :
          \E values \in [DOMAIN Xs -> TableValues] : TableAdd(reverse_id, Xs, values)
    \/ \E X \in TableTensors : TableGet(X)

SpecTable == InitTable /\ [][NextTable]_vars

\* ---------------------------------------------------------------- properties of the trace
Returned == pc = "traced"

ReplayPath == monkey_patches # <<>>

Produces(n, m) == Range(n.Ys) \cap Range(m.Xs) # {}

\* The InputLayers of the root graph, and their copies.
IsRootInputLayer(l) == \E o \in Range(InputLayers) : l = o \/ l = copy_layer(o)

\* The tensors a node creates.  An InputLayer's call returns its argument:
\* the node of a root InputLayer stands for the creation of a graph input,
\* while the InputLayer of a container's body passes on a tensor that
\* another node created.
Created(n) ==
    IF IsRootInputLayer(n.layer) THEN Range(n.Ys) ELSE Range(n.Ys) \ Range(n.Xs)

\* Every node comes after every other node that creates one of its input
\* tensors.
TopologicalOrder(nodes) ==
    \A i, j \in DOMAIN nodes :
        (i # j /\ Created(nodes[i]) \cap Range(nodes[j].Xs) # {}) => i < j

\* C1: the execution record trace_model_execution returns is a topological
\* order, with and without nested containers: every node occurs strictly
\* after every node that produces one of its input tensors.
C1_TopologicalOrder == Returned => TopologicalOrder(executed_nodes)

\* A record of the replay path with three nodes, one feeding another.
C1_Witness ==
    /\ Returned
    /\ ReplayPath
    /\ Len(executed_nodes) >= 3
    /\ \E i, j \in DOMAIN executed_nodes :
          /\ i < j
          /\ ~IsInputLayer(executed_nodes[i].layer)
          /\ Produces(executed_nodes[i], executed_nodes[j])

\* C2: when trace_model_execution has returned or raised, every layer's call
\* is the one it had when the function was called: after a normal return, a
\* failure while patching, and a failure of the forward replay.
C2_PatchesReverted ==
    (caller = "trace_model_execution" /\ pc \in {"traced", "raised"}) => call = call_at_entry

\* The function raised while patching, after it had patched a layer.
C2_Witness ==
    /\ pc = "raised"
    /\ \E k \in DOMAIN monkey_patches :
          k > 1 /\ monkey_patches[k].old_method = "patched_elsewhere"

\* The positions of raw a record kept.
KeptPositions(raw, kept) == {i \in DOMAIN raw : raw[i] \in Range(kept)}

\* What the filter needs when it reaches position i of raw: the outputs and
\* the inputs of the nodes it kept after i.
NeededAt(raw, S, outs, i) ==
    Range(outs) \cup UNION {Range(raw[j].Xs) : j \in {k \in S : k > i}}

\* A node is kept exactly if every output tensor of it is needed, and the
\* kept nodes are in their forward order.
KeepRule(raw, kept, outs) ==
    LET S == KeptPositions(raw, kept)
    IN /\ kept = [k \in 1..Cardinality(S) |-> raw[SortedSeq(S)[k]]]
       /\ \A i \in DOMAIN raw :
             i \in S <=> Range(raw[i].Ys) \subseteq NeededAt(raw, S, outs, i)

NodesOf(l, S) == {i \in S : fwd_nodes[i].layer = l}

Consumed(i) == \E j \in DOMAIN fwd_nodes : j # i /\ Produces(fwd_nodes[i], fwd_nodes[j])

\* Layers invoked once in the model and once outside it, the outside output
\* never consumed.
InsideAndOutside ==
    LET net == NetNodes(fwd_nodes, model_outputs)
    IN {l \in UsedLayers :
          /\ ~IsInputLayer(l)
          /\ Cardinality(NodesOf(l, net)) = 1
          /\ Cardinality(NodesOf(l, DOMAIN fwd_nodes \ net)) = 1
          /\ \A i \in NodesOf(l, DOMAIN fwd_nodes \ net) : ~Consumed(i)}

EntriesOf(l) ==
    {k \in DOMAIN executed_nodes : executed_nodes[k].layer \in {l, copy_layer(l)}}

\* C4: the filter keeps a node exactly if all its outputs are needed, in
\* forward order, and so a layer invoked once in the model and once outside
\* it is in the returned record exactly once, for the invocation in the model.
C4_PruneKeepsModelInvocation ==
    Returned =>
        /\ KeepRule(raw_nodes, executed_nodes, outputs)
        /\ \A l \in InsideAndOutside :
              /\ Cardinality(EntriesOf(l)) = 1
              /\ ~ReplayPath =>
                    \A k \in EntriesOf(l) :
                        executed_nodes[k] \in
                            {fwd_nodes[i] : i \in NodesOf(l, NetNodes(fwd_nodes, model_outputs))}

\* The keep rule alone.
PruneKeepRule == Returned => KeepRule(raw_nodes, executed_nodes, outputs)

\* ---------------------------------------------------------------- properties of the reverse pass
\* C3: a call of add_reversed_tensors that delivers a contribution to a
\* finalized entry raises, and the final value an entry caches is the one
\* its contributions give.
C3_FinalizedEntryClosed ==
    pc = "table" =>
        /\ \A c \in Range(applied) :
              (c.op = "add_reversed_tensors" /\ c.finalized # {}) => exc = "Exception"
        /\ \A X \in Finalized(reversed_tensors) :
              reversed_tensors[X]["final_tensor"]
                  = PostProcess(Aggregate(reversed_tensors[X]), X, bottleneck_tensors, args)

InReverseWalk == caller = "reverse_model" /\ pc \in {"reverse_walk", "reversed"}

ReverseReturned == caller = "reverse_model" /\ pc = "reversed"

NoPostProcessing ==
    /\ ~args.clip_all_reversed_tensors.on
    /\ args.project_bottleneck_tensors.mode = "False"

\* The mappings given return one reversed tensor per input of the node.
OnePerInput == args.reverse_mappings # "first_input"

\* The positions of the record the walk has visited, InputLayers aside.
Visited ==
    {i \in DOMAIN executed_nodes :
        i > Len(executed_nodes) - enum_nid /\ ~IsInputLayer(executed_nodes[i].layer)}

\* The input positions of visited nodes that consume t.
ConsumingPositions(t) ==
    {ip \in Visited \X (1..2) :
        ip[2] \in DOMAIN executed_nodes[ip[1]].Xs /\ executed_nodes[ip[1]].Xs[ip[2]] = t}

ExpectedContributions(t) ==
    (IF t \in Range(outputs) THEN 1 ELSE 0) + Cardinality(ConsumingPositions(t))

\* C5: during and after the walk a tensor's entry holds one contribution per
\* consuming input position of each visited node, plus the seed of a graph
\* output, when every mapping returns one tensor per input; without clipping and projection the final value of an entry is
\* the sum of its contributions (the contribution itself when there is one).
C5_Contributions ==
    (InReverseWalk /\ OnePerInput) =>
        /\ DOMAIN reversed_tensors = {t \in 1..n_tensors : ExpectedContributions(t) > 0}
        /\ \A t \in DOMAIN reversed_tensors :
              /\ Len(Contributions(reversed_tensors[t])) = ExpectedContributions(t)
              /\ (NoPostProcessing /\ t \in Finalized(reversed_tensors)) =>
                    reversed_tensors[t]["final_tensor"]
                        = SeqSum(Contributions(reversed_tensors[t]))

\* A tensor two nodes consume, no graph output: two contributions that
\* differ, and their sum returned for it.
C5_Witness ==
    /\ ReverseReturned
    /\ NoPostProcessing
    /\ OnePerInput
    /\ \E t \in DOMAIN reversed_tensors :
          /\ t \notin Range(outputs)
          /\ Cardinality({ip[1] : ip \in ConsumingPositions(t)}) = 2
          /\ Len(Contributions(reversed_tensors[t])) = 2
          /\ Contributions(reversed_tensors[t])[1] # Contributions(reversed_tensors[t])[2]
          /\ t \in Finalized(reversed_tensors)
          /\ reversed_tensors[t]["final_tensor"]
                = Contributions(reversed_tensors[t])[1] + Contributions(reversed_tensors[t])[2]

\* C6: reverse_model returns the final value of every tensor of model.inputs,
\* in their order, and does not fail for an entry missing from the table.
C6_ReversedInputs ==
    (caller = "reverse_model" /\ pc \in {"reversed", "raised"}) =>
        /\ exc # "KeyError: reversed_tensors"
        /\ pc = "reversed" =>
              /\ Len(reversed_input_tensors) = Len(model_inputs)
              /\ \A k \in DOMAIN model_inputs :
                    /\ model_inputs[k] \in Finalized(reversed_tensors)
                    /\ reversed_input_tensors[k] = reversed_tensors[model_inputs[k]]["final_tensor"]

\* The entry of an input is missing only when the filter dropped a node of
\* the network.
MissingOnlyWhenDropped ==
    (caller = "reverse_model" /\ OnePerInput /\ exc = "KeyError: reversed_tensors") =>
        Len(executed_nodes) < Cardinality(NetNodes(fwd_nodes, model_outputs))

\* The model is a chain: one input, n nodes of one input and one output
\* each on the output of the one before, the last one's output the output.
ChainModel(n) ==
    LET net == SortedSeq(NetNodes(fwd_nodes, model_outputs))
        nodes == [k \in DOMAIN net |-> fwd_nodes[net[k]]]
    IN /\ Len(model_outputs) = 1
       /\ Len(nodes) = n + 1
       /\ IsInputLayer(nodes[1].layer)
       /\ \A k \in 2..(n + 1) :
             /\ Len(nodes[k].Xs) = 1
             /\ Len(nodes[k].Ys) = 1
             /\ nodes[k].Xs[1] = nodes[k - 1].Ys[1]
       /\ model_outputs[1] = nodes[n + 1].Ys[1]

IdentityMappings == args.reverse_mappings = "identity"

\* C7: with identity mappings and neither clipping nor projection, the
\* reverse of a chain of one or more nodes is head_mapping of the output.
C7_RoundTrip ==
    (ReverseReturned /\ IdentityMappings /\ NoPostProcessing
        /\ \E n \in 1..MaxNodes : ChainModel(n)) =>
        reversed_input_tensors = <<HeadMapping(args.head_mapping, model_outputs[1])>>

\* A chain of three nodes reversed with a head_mapping other than the identity.
C7_Witness ==
    /\ ReverseReturned
    /\ IdentityMappings
    /\ NoPostProcessing
    /\ ChainModel(3)
    /\ args.head_mapping = "ones"
    /\ reversed_input_tensors = <<1>>

\* The layers a mapping class is resolved for.
StatefulLayers ==
    {l \in Range(layers) :
        IsMappingClass(IF ReverseMappings(args.reverse_mappings, l) = "None"
                       THEN args.default_reverse_mapping
                       ELSE ReverseMappings(args.reverse_mappings, l))}

Constructions(l) == {k \in DOMAIN constructed : constructed[k] = l}

AppliedAt(l) == {k \in DOMAIN applied : applied[k].node.layer = l}

\* C8: from the start of the walk on, the mapping class of a layer has been
\* constructed exactly once, and the object constructed is the one applied
\* at every node of the layer.
C8_HandlerConstructedOnce ==
    (caller = "reverse_model" /\ pc \in {"reverse_walk", "reversed", "raised"}) =>
        \A l \in StatefulLayers :
            /\ Cardinality(Constructions(l)) = 1
            /\ \A k \in AppliedAt(l) :
                  /\ applied[k].mapping.name = "ScaleMapping.apply"
                  /\ applied[k].mapping.obj \in Constructions(l)

\* A layer with a mapping class applied at two nodes of the record.
C8_Witness ==
    /\ ReverseReturned
    /\ \E l \in StatefulLayers :
          /\ Cardinality(AppliedAt(l)) = 2
          /\ Cardinality({applied[k].node : k \in AppliedAt(l)}) = 2
          /\ Cardinality(Constructions(l)) = 1

InClipRange(v) ==
    args.clip_all_reversed_tensors.lo <= v /\ v <= args.clip_all_reversed_tensors.hi

\* C9: with clipping enabled every final value is inside [lo, hi]: those
\* cached in the table, those handed to mappings as reversed outputs, and
\* those returned for the inputs.
C9_ClipRange ==
    (caller = "reverse_model" /\ pc # "table" /\ args.clip_all_reversed_tensors.on) =>
        /\ \A t \in Finalized(reversed_tensors) : InClipRange(reversed_tensors[t]["final_tensor"])
        /\ \A k \in DOMAIN applied : \A v \in Range(applied[k].reversed_Ys) : InClipRange(v)
        /\ \A v \in Range(reversed_input_tensors) : InClipRange(v)

\* A projected bottleneck tensor and a tensor whose contributions sum to
\* more than hi, both finalized, with clipping on.
C9_Witness ==
    /\ ReverseReturned
    /\ args.clip_all_reversed_tensors.on
    /\ args.project_bottleneck_tensors.mode = "range"
    /\ \E t \in Finalized(reversed_tensors) \cap bottleneck_tensors :
          /\ SeqSum(Contributions(reversed_tensors[t])) > args.clip_all_reversed_tensors.hi
          /\ reversed_tensors[t]["final_tensor"] = args.clip_all_reversed_tensors.hi
    /\ \E t \in Finalized(reversed_tensors) \ bottleneck_tensors :
          /\ Len(Contributions(reversed_tensors[t])) >= 2
          /\ SeqSum(Contributions(reversed_tensors[t])) > args.clip_all_reversed_tensors.hi

\* The model is a diamond: one input, two nodes of one input and one output
\* on it, and a node that merges their outputs into the output.
DiamondModel ==
    LET net == SortedSeq(NetNodes(fwd_nodes, model_outputs))
        nodes == [k \in DOMAIN net |-> fwd_nodes[net[k]]]
    IN /\ Len(model_outputs) = 1
       /\ Len(nodes) = 4
       /\ IsInputLayer(nodes[1].layer)
       /\ \A k \in {2, 3} :
             /\ Len(nodes[k].Ys) = 1
             /\ nodes[k].Xs = nodes[1].Ys
       /\ nodes[4].Xs = <<nodes[2].Ys[1], nodes[3].Ys[1]>>
       /\ nodes[4].Ys = model_outputs

\* The tensors between the nodes of a chain of n nodes.
InteriorTensors(n) ==
    LET net == SortedSeq(NetNodes(fwd_nodes, model_outputs))
    IN {fwd_nodes[net[k]].Ys[1] : k \in 2..n}

Projecting == args.project_bottleneck_tensors.mode # "False"

BottlenecksFailed ==
    pc = "raised" /\ exc \in {"AssertionError", "KeyError: forward_connections"}

\* C10: get_bottleneck_tensors returns no tensor for a diamond, and for a
\* chain of N nodes a set that holds the N-1 tensors between them.
C10_Bottlenecks ==
    (caller = "reverse_model" /\ pc \in {"reverse_walk", "reversed", "raised"} /\ Projecting) =>
        /\ DiamondModel => (~BottlenecksFailed /\ bottleneck_tensors = {})
        /\ \A n \in 1..MaxNodes :
              ChainModel(n) =>
                  (~BottlenecksFailed /\ InteriorTensors(n) \subseteq bottleneck_tensors)

\* The bottleneck tensors of a diamond have been computed.
C10_Witness ==
    /\ ReverseReturned
    /\ Projecting
    /\ DiamondModel
    /\ bottleneck_tensors = {}

\* The bottleneck tensors of a chain of three nodes have been computed.
ChainBottlenecks ==
    /\ ReverseReturned
    /\ Projecting
    /\ ChainModel(3)
    /\ Cardinality(InteriorTensors(3)) = 2
    /\ InteriorTensors(3) \subseteq bottleneck_tensors

\* The layers whose mapping is None: none from reverse_mappings, no default.
Unmapped ==
    {l \in Range(layers) :
        ReverseMappings(args.reverse_mappings, l) = "None"
            /\ args.default_reverse_mapping = "None"}

\* Every output of the node at position i has an entry in the table.
OutputsContributed(i) == Range(executed_nodes[i].Ys) \subseteq DOMAIN reversed_tensors

\* The position of the node the walk visited last.
LastVisited == Len(executed_nodes) - enum_nid + 1

\* C11: a layer without a mapping and without a default does not make the
\* initialization fail (None is stored for it); reverse_model raises for it
\* exactly at the first node of such a layer, InputLayers aside, whose
\* outputs all have an entry, it returns nothing then, and a walk that
\* meets no such node does not raise for it.
C11_MissingMapping ==
    caller = "reverse_model" =>
        /\ pc \in {"reverse_walk", "reversed", "raised"} =>
              \A l \in Unmapped : initialized_reverse_mappings[l] = Mapping("None", 0)
        /\ exc = "TypeError" =>
              /\ pc = "raised"
              /\ enum_nid >= 1
              /\ reversed_input_tensors = <<>>
              /\ executed_nodes[LastVisited].layer \in Unmapped
              /\ ~IsInputLayer(executed_nodes[LastVisited].layer)
              /\ OutputsContributed(LastVisited)
              /\ \A k \in DOMAIN applied : applied[k].node.layer \notin Unmapped
        /\ pc \in {"reverse_walk", "reversed"} =>
              \A i \in Visited :
                  executed_nodes[i].layer \in Unmapped => ~OutputsContributed(i)

\* The walk applied a mapping at one node and raised at the next, a node of
\* a layer without a mapping.
C11_Witness ==
    /\ caller = "reverse_model"
    /\ pc = "raised"
    /\ exc = "TypeError"
    /\ Len(applied) >= 1
    /\ Finalized(reversed_tensors) # {}
    /\ reversed_input_tensors = <<>>

\* The walk passed a node of a layer without a mapping and returned.
UnmappedNotReached ==
    /\ ReverseReturned
    /\ \E i \in Visited : executed_nodes[i].layer \in Unmapped

\* ---------------------------------------------------------------- the two paths of the trace
\* An entry's operator and its numbers of input and output tensors.
Shape(n) == <<n.layer, Len(n.Xs), Len(n.Ys)>>

Shapes(nodes) == [k \in DOMAIN nodes |-> Shape(nodes[k])]

\* trace_model_execution returned by its else branch.
NativeReturned == caller = "trace_model_execution" /\ Returned /\ ~ReplayPath

\* The depth of an entry of the native record.
DepthOfEntry(n) ==
    NodesDepth(fwd_nodes, model_outputs)[CHOOSE i \in DOMAIN fwd_nodes : fwd_nodes[i] = n]

\* The record with the entries of each depth in the opposite order.
DepthReversed(rec) ==
    LET d == [k \in DOMAIN rec |-> DepthOfEntry(rec[k])]
        run(k) == {j \in DOMAIN rec : d[j] = d[k]}
        lo(k) == CHOOSE j \in run(k) : \A i \in run(k) : j <= i
        hi(k) == CHOOSE j \in run(k) : \A i \in run(k) : j >= i
    IN [k \in DOMAIN rec |-> rec[lo(k) + hi(k) - k]]

\* What the replay path returns for the graph the else branch traced.
ReplayOfSameGraph == ForcedReplay(fwd_nodes, model_inputs, model_outputs, n_tensors)

\* C12, as stated: for a graph without containers the replay path, forced,
\* gives the operators in the order of the native path, with the same
\* numbers of input and output tensors.
C12_SameOrder ==
    NativeReturned => Shapes(ReplayOfSameGraph) = Shapes(executed_nodes)

\* C12, amended: the replay path gives the entries of the native path with
\* the entries of each depth in the opposite order.
C12_SameUpToDepthOrder ==
    NativeReturned => Shapes(ReplayOfSameGraph) = Shapes(DepthReversed(executed_nodes))

\* A native record with two entries of one depth and different operators,
\* which the replay path gives in the other order.
C12_Witness ==
    /\ NativeReturned
    /\ \E i, j \in DOMAIN executed_nodes :
          /\ i < j
          /\ DepthOfEntry(executed_nodes[i]) = DepthOfEntry(executed_nodes[j])
          /\ executed_nodes[i].layer # executed_nodes[j].layer
          /\ Shape(ReplayOfSameGraph[i]) = Shape(executed_nodes[j])
          /\ Shape(ReplayOfSameGraph[j]) = Shape(executed_nodes[i])

\* ---------------------------------------------------------------- node ids
\* The id get_model_execution_trace gives the entry n of the record.
ForwardNid(n) ==
    EnrichWithNids(executed_nodes, 0)[CHOOSE i \in DOMAIN executed_nodes : executed_nodes[i] = n].nid

\* C13: the nid handed to a mapping is the id get_model_execution_graph
\* gives the node, and over the walk the nids go down by one from N-1,
\* N the number of nodes of the record that are not InputLayers'.
C13_ReverseNids ==
    caller = "reverse_model" =>
        /\ \A k \in DOMAIN applied : <<applied[k].nid>> = ForwardNid(applied[k].node)
        /\ OnePerInput =>
              \A k \in DOMAIN applied :
                  applied[k].nid = len_execution_list_wo_inputs_layers - k

\* The nids agree when every InputLayer's entry precedes all others.
NidsWhenInputsFirst ==
    (caller = "reverse_model"
        /\ \A i, j \in DOMAIN executed_nodes :
              (IsInputLayer(executed_nodes[j].layer) /\ ~IsInputLayer(executed_nodes[i].layer))
                  => j < i) =>
        \A k \in DOMAIN applied : <<applied[k].nid>> = ForwardNid(applied[k].node)

\* ---------------------------------------------------------------- C14
\* The nodes of the record whose outputs get_model_execution_trace registers
\* a producer for (line 431).
Producers ==
    {k \in DOMAIN executed_nodes :
        keep_input_layers \/ ~IsInputLayer(executed_nodes[k].layer)}

TwoProducers ==
    \E i, j \in Producers :
        i # j /\ Range(executed_nodes[i].Ys) \cap Range(executed_nodes[j].Ys) # {}

GraphCallEnded == caller = "get_model_execution_trace" /\ pc \in {"graph", "raised"}

\* C14: when the execution record holds two nodes that list the same tensor
\* among their outputs, get_model_execution_trace raises "Cannot be more than
\* one creating node." instead of keeping one of the producers.
C14_SingleProducer ==
    (GraphCallEnded /\ TwoProducers) => (pc = "raised" /\ exc = "Exception")

\* The raise of line 435 is reached at all.
IntegrityErrorRaised == GraphCallEnded /\ exc = "Exception"

\* The graph is returned.
GraphReturned == GraphCallEnded /\ pc = "graph"

\* An InputLayer's output is looked up in inputs_to_node without a default.
InputLookupFails == GraphCallEnded /\ exc = "KeyError: inputs_to_node"

\* ---------------------------------------------------------------- get_model_layers on nested containers
MaxMembers == 3

\* The lists of at most MaxMembers distinct layers of S.
LayerLists(S) ==
    {ls \in UNION {[1..n -> S] : n \in 1..MaxMembers} :
        \A i, j \in DOMAIN ls : i # j => ls[i] # ls[j]}

\* container.layers of a root model, of a container net of its body and of
\* a container net_inner of net's body; d1 and net_d1 are layer instances
\* a model may call in more than one of the three graphs.
ContainerLayers ==
    {[model |-> m, net |-> n, net_inner |-> i] :
        m \in LayerLists({"d1", "d2", "net"}),
        n \in LayerLists({"d1", "net_d1", "net_inner"}),
        i \in LayerLists({"d1", "net_d1"})}

InitLayers ==
    /\ pc = "model_layers"
    /\ caller = "get_model_layers"
    /\ exc = ""
    /\ fwd_nodes = <<>>
    /\ n_tensors = 0
    /\ model_inputs = <<>>
    /\ model_outputs = <<>>
    /\ reapply_on_copied_layers = FALSE
    /\ call_at_entry = [l \in AllLayers |-> "orig"]
    /\ call = [l \in AllLayers |-> "orig"]
    /\ monkey_patches = <<>>
    /\ layers = <<>>
    /\ executed_nodes = <<>>
    /\ raw_nodes = <<>>
    /\ outputs = <<>>
    /\ args = DefaultArgs
    /\ reversed_tensors = <<>>
    /\ bottleneck_tensors = {}
    /\ initialized_reverse_mappings = <<>>
    /\ enum_nid = 0
    /\ reversed_input_tensors = <<>>
    /\ constructed = <<>>
    /\ applied = <<>>
    /\ keep_input_layers = FALSE
    /\ execution_trace = <<>>
    /\ container_layers \in ContainerLayers

\* get_model_layers(model), lines 234-245.
CallGetModelLayers ==
    /\ pc = "model_layers"
    /\ LET r == GetModelLayers(container_layers)
       IN /\ layers' = IF r.err = "" THEN r.ret ELSE <<>>
          /\ exc' = r.err
          /\ pc' = IF r.err = "" THEN "collected" ELSE "raised"
    /\ UNCHANGED <<reverse_vars, caller, world_vars, entry_vars, call, monkey_patches,
                   executed_nodes, raw_nodes, outputs>>

NextLayers == CallGetModelLayers

SpecLayers == InitLayers /\ [][NextLayers]_vars

\* ---------------------------------------------------------------- C15
\* The containers get_model_layers descends into, the root included.
ReachableWithin(S) ==
    S \cup {l \in UNION {Range(container_layers[c]) : c \in S} : is_container(l)}

ReachableContainers == ReachableWithin(ReachableWithin(ReachableWithin({"model"})))

ReachableLayers == UNION {Range(container_layers[c]) : c \in ReachableContainers}

\* A layer instance is a member of two of the containers reached.
SharedLayer ==
    \E c1, c2 \in ReachableContainers :
        c1 # c2 /\ Range(container_layers[c1]) \cap Range(container_layers[c2]) # {}

\* The layers below a container, at any depth.
RECURSIVE Below(_)
Below(c) ==
    Range(container_layers[c])
        \cup UNION {Below(l) : l \in {m \in Range(container_layers[c]) : is_container(m)}}

PositionsOf(l) == {k \in DOMAIN layers : layers[k] = l}

PositionOf(l) == CHOOSE k \in DOMAIN layers : layers[k] = l

\* The layers of c keep the order of c.layers, and a container is followed
\* at once by everything below it.
PreOrder ==
    /\ \A c \in ReachableContainers : \A i, j \in DOMAIN container_layers[c] :
            i < j => PositionOf(container_layers[c][i]) < PositionOf(container_layers[c][j])
    /\ \A c \in ReachableContainers \ {"model"} :
            {layers[k] : k \in (PositionOf(c) + 1)..(PositionOf(c) + Cardinality(Below(c)))}
                = Below(c)

LayersCallEnded == caller = "get_model_layers" /\ pc \in {"collected", "raised"}

\* C15: get_model_layers returns every layer reachable from the
\* root exactly once, in pre-order, also when a layer instance is a member
\* of more than one container.
C15_ExactlyOnce ==
    LayersCallEnded =>
        /\ pc = "collected"
        /\ \A l \in ReachableLayers : Cardinality(PositionsOf(l)) = 1
        /\ Range(layers) = ReachableLayers

\* What the code does: when no layer instance is a member of two containers,
\* get_model_layers returns every layer reachable from the root exactly
\* once, in pre-order; when one is, it raises an AssertionError and returns
\* nothing.
ExactlyOnceUnlessShared ==
    LayersCallEnded =>
        /\ ~SharedLayer =>
                /\ pc = "collected"
                /\ \A l \in ReachableLayers : Cardinality(PositionsOf(l)) = 1
                /\ Range(layers) = ReachableLayers
                /\ PreOrder
        /\ SharedLayer => (pc = "raised" /\ exc = "AssertionError" /\ layers = <<>>)

\* A container in a container in the root, all three bodies collected.
NestedCollected ==
    /\ LayersCallEnded
    /\ pc = "collected"
    /\ ReachableContainers = {"model", "net", "net_inner"}
    /\ Len(layers) >= 5

\* The assert of line 239 fails for a layer of the root and of a nested
\* container.
SharedLayerRaises ==
    /\ LayersCallEnded
    /\ pc = "raised"
    /\ "d1" \in Range(container_layers["model"]) \cap Range(container_layers["net_inner"])
    /\ "net_inner" \in ReachableContainers

\* ---------------------------------------------------------------- C16
\* C16: the execution record trace_model_execution returns for a model with
\* a container holds no node whose layer is a container.
C16_RecordIsFlat ==
    Returned => \A k \in DOMAIN executed_nodes : ~is_container(executed_nodes[k].layer)

\* The body of the container is replayed, and the record returned holds the
\* container's node instead of the nodes of its body.
ContainerNodeKept ==
    /\ Returned
    /\ \E k \in DOMAIN raw_nodes : raw_nodes[k].layer \in Range(ContainerBody)
    /\ \E k \in DOMAIN executed_nodes : is_container(executed_nodes[k].layer)
    /\ \A k \in DOMAIN executed_nodes : executed_nodes[k].layer \notin Range(ContainerBody) \ {"net_in"}

\* A record is returned that holds nodes of the container's body.
BodyNodesKept ==
    /\ Returned
    /\ \E k \in DOMAIN executed_nodes : executed_nodes[k].layer \in {"net_d1", "net_d2"}

\* ---------------------------------------------------------------- C17
\* The node the next iteration of the walk visits.
NextNode == executed_nodes[Len(executed_nodes) - enum_nid]

\* The walk is about to visit a node, not an InputLayer's, one of whose
\* outputs has no entry in reversed_tensors.
AtUnreachedNode ==
    /\ caller = "reverse_model"
    /\ pc = "reverse_walk"
    /\ enum_nid < Len(executed_nodes)
    /\ ~IsInputLayer(NextNode.layer)
    /\ \E k \in DOMAIN NextNode.Ys : NextNode.Ys[k] \notin DOMAIN reversed_tensors

\* C17: the iteration of the reverse walk at a node, not an InputLayer's,
\* with an output that has no recorded contribution goes on to the next
\* node without failure: no mapping is applied, no entry is finalized and
\* no contribution is added, so reversed_tensors is unchanged.
C17_SkipLeavesTable ==
    [][AtUnreachedNode =>
            /\ reversed_tensors' = reversed_tensors
            /\ applied' = applied
            /\ exc' = exc
            /\ pc' = "reverse_walk"
            /\ enum_nid' = enum_nid + 1]_vars

\* The walk has passed a node, not an InputLayer's, without applying a
\* mapping to it, has gone on to apply one to a later node, and returned.
C17_Witness ==
    /\ ReverseReturned
    /\ \E i \in Visited :
            /\ \A k \in DOMAIN applied : applied[k].node # executed_nodes[i]
            /\ \E k \in DOMAIN applied : \E j \in Visited : j < i /\ applied[k].node = executed_nodes[j]
            /\ \E k \in DOMAIN executed_nodes[i].Ys :
                    executed_nodes[i].Ys[k] \notin DOMAIN reversed_tensors

\* ---------------------------------------------------------------- C18
\* The step is the call get_reversed_tensor(X) on a tensor with an entry.
IsGet(X) ==
    /\ pc = "table"
    /\ X \in DOMAIN reversed_tensors
    /\ applied' = <<[op |-> "get_reversed_tensor", tensors |-> <<X>>, finalized |-> {}]>>

\* The sum of the contributions of X, projected when projection is on and X
\* is a bottleneck tensor, and the result clipped when clipping is on.
FinalValue(X) ==
    LET sum == SeqSum(Contributions(reversed_tensors[X]))
        projected == IF args.project_bottleneck_tensors.mode # "False" /\ X \in bottleneck_tensors
                     THEN Project(args.project_bottleneck_tensors, sum)
                     ELSE sum
    IN IF args.clip_all_reversed_tensors.on
       THEN Clip(args.clip_all_reversed_tensors.lo, args.clip_all_reversed_tensors.hi, projected)
       ELSE projected

\* C18: the first get_reversed_tensor(X) stores and returns the sum of the
\* contributions, projected iff projection is on and X is a bottleneck
\* tensor, then clipped iff clipping is on; every later call returns the
\* stored value and leaves the table as it is.
C18_FinalComputedOnce ==
    [][\A X \in TableTensors :
            IsGet(X) =>
                IF X \notin Finalized(reversed_tensors)
                THEN /\ reversed_tensors'
                            = [reversed_tensors EXCEPT
                                    ![X] = [k \in DOMAIN @ \cup {"final_tensor"} |->
                                                IF k = "final_tensor" THEN FinalValue(X) ELSE @[k]]]
                     /\ reversed_input_tensors' = <<FinalValue(X)>>
                     /\ exc' = ""
                ELSE /\ reversed_tensors' = reversed_tensors
                     /\ reversed_input_tensors' = <<reversed_tensors[X]["final_tensor"]>>
                     /\ exc' = ""]_vars

\* The last call read a bottleneck tensor finalized before, with projection
\* and clipping on, and returned the stored value where the contributions
\* the entry holds by now would give another.
C18_Witness ==
    /\ pc = "table"
    /\ applied = <<[op |-> "get_reversed_tensor", tensors |-> <<1>>, finalized |-> {}]>>
    /\ 1 \in Finalized(reversed_tensors) \cap bottleneck_tensors
    /\ args.project_bottleneck_tensors.mode # "False"
    /\ args.clip_all_reversed_tensors.on
    /\ reversed_input_tensors = <<reversed_tensors[1]["final_tensor"]>>
    /\ reversed_tensors[1]["final_tensor"] # FinalValue(1)

\* A first read with projection on and clipping off, and one with clipping
\* on and projection off, each of a sum outside the range.
FirstReadProjectedOnly ==
    /\ pc = "table"
    /\ applied = <<[op |-> "get_reversed_tensor", tensors |-> <<1>>, finalized |-> {}]>>
    /\ 1 \in Finalized(reversed_tensors)
    /\ args.project_bottleneck_tensors.mode # "False"
    /\ ~args.clip_all_reversed_tensors.on
    /\ reversed_tensors[1]["final_tensor"] = 2
    /\ SeqSum(Contributions(reversed_tensors[1])) = 4

FirstReadClippedOnly ==
    /\ pc = "table"
    /\ applied = <<[op |-> "get_reversed_tensor", tensors |-> <<1>>, finalized |-> {}]>>
    /\ 1 \in Finalized(reversed_tensors)
    /\ args.project_bottleneck_tensors.mode = "False"
    /\ args.clip_all_reversed_tensors.on
    /\ reversed_tensors[1]["final_tensor"] = 1
    /\ SeqSum(Contributions(reversed_tensors[1])) = 4

\* ---------------------------------------------------------------- C19
\* The positions of the record that are not an InputLayer's.
LayerNodes == {k \in DOMAIN executed_nodes : ~IsInputLayer(executed_nodes[k].layer)}

\* A tensor that opens the connections of its consumers before position k
\* is done: an input of the model, or an output of an earlier node that is
\* not an output of the model.
ActiveBefore(x, k) ==
    \/ x \in Range(model_inputs)
    \/ \E j \in LayerNodes :
            j < k /\ x \in Range(executed_nodes[j].Ys) /\ x \notin Range(outputs)

\* The open set right after the outputs of the node at position k are
\* removed from it: the outputs of the later nodes with an active input.
OpenAfter(k) ==
    UNION {Range(executed_nodes[m].Ys) :
                m \in {i \in LayerNodes :
                            i > k /\ \E x \in Range(executed_nodes[i].Xs) : ActiveBefore(x, k)}}

ClosingNodes == {k \in LayerNodes : OpenAfter(k) = {}}

BottlenecksComputed ==
    caller = "reverse_model" /\ pc \in {"reverse_walk", "reversed"} /\ Projecting

\* C19: the bottleneck tensors are the first input and the first output of
\* the nodes, InputLayers aside, that have exactly one input and leave the
\* open set empty once their outputs are removed from it; a node of two or
\* more inputs that leaves it empty marks nothing.
C19_MarkingRule ==
    BottlenecksComputed =>
        bottleneck_tensors
            = UNION {{executed_nodes[k].Xs[1], executed_nodes[k].Ys[1]} :
                        k \in {i \in ClosingNodes : Len(executed_nodes[i].Xs) = 1}}

\* A node of two inputs closes the open set and its output is not marked,
\* in a model where a node of one input marks its tensors.
C19_Witness ==
    /\ BottlenecksComputed
    /\ pc = "reversed"
    /\ bottleneck_tensors # {}
    /\ \E k \in ClosingNodes :
            /\ Len(executed_nodes[k].Xs) >= 2
            /\ executed_nodes[k].Ys[1] \notin bottleneck_tensors

\* ---------------------------------------------------------------- C20
\* The nodes of the record, InputLayers aside, that consume t.
Consumers(t) == {i \in LayerNodes : t \in Range(executed_nodes[i].Xs)}

\* C20: in the reverse walk an entry that holds a final value gets no
\* further contribution, and when an entry is finalized every node that
\* consumes its tensor has been visited.
C20_ContributionsBeforeFinal ==
    [][(caller = "reverse_model" /\ pc = "reverse_walk") =>
            /\ \A t \in Finalized(reversed_tensors) :
                    /\ t \in Finalized(reversed_tensors')
                    /\ Contributions(reversed_tensors'[t]) = Contributions(reversed_tensors[t])
                    /\ reversed_tensors'[t]["final_tensor"] = reversed_tensors[t]["final_tensor"]
            /\ \A t \in Finalized(reversed_tensors') :
                    \A i \in Consumers(t) : i > Len(executed_nodes) - enum_nid']_vars

\* In the middle of the walk, a tensor two nodes consume has been finalized
\* with the contributions of both.
C20_Witness ==
    /\ caller = "reverse_model"
    /\ pc = "reverse_walk"
    /\ enum_nid < Len(executed_nodes)
    /\ \E t \in Finalized(reversed_tensors) :
            /\ Cardinality(Consumers(t)) >= 2
            /\ Len(Contributions(reversed_tensors[t])) >= 2
            /\ t \notin Range(model_inputs)

\* A tensor that is an output of the model and an input of a node, finalized
\* with the seed and the node's contribution.
SeededAndConsumed ==
    /\ ReverseReturned
    /\ \E t \in Finalized(reversed_tensors) \cap Range(outputs) :
            /\ Consumers(t) # {}
            /\ Len(Contributions(reversed_tensors[t])) >= 2

\* ---------------------------------------------------------------- C21
\* Some entry of the record other than the one at k lists x as an output.
ProducedByAnother(x, k) ==
    \E j \in DOMAIN executed_nodes : j # k /\ x \in Range(executed_nodes[j].Ys)

\* C21: in the record trace_model_execution returns, every input tensor of a
\* node is an input of the model or an output of another node of the record.
C21_ClosedUnderProducers ==
    Returned =>
        \A k \in DOMAIN executed_nodes : \A x \in Range(executed_nodes[k].Xs) :
            x \in Range(model_inputs) \/ ProducedByAnother(x, k)

\* The closure for the records of the native path no node of two outputs
\* was dropped from.
ClosedWhenOutputsAllNeeded ==
    (Returned /\ ~ReplayPath /\ \A k \in DOMAIN raw_nodes :
                    Len(raw_nodes[k].Ys) >= 2 => raw_nodes[k] \in Range(executed_nodes)) =>
        \A k \in DOMAIN executed_nodes : \A x \in Range(executed_nodes[k].Xs) :
            x \in Range(model_inputs) \/ ProducedByAnother(x, k)

\* A node of one input kept in a record of two or more layer nodes, its
\* input produced by a kept node.
ClosedRecordReturned ==
    /\ Returned
    /\ \E k \in DOMAIN executed_nodes :
            /\ ~IsInputLayer(executed_nodes[k].layer)
            /\ \E x \in Range(executed_nodes[k].Xs) :
                    x \notin Range(model_inputs) /\ ProducedByAnother(x, k)

\* ---------------------------------------------------------------- C22
\* C22: the assert of line 569 holds in every call reverse_model makes of
\* get_bottleneck_tensors on the record of a model.
C22_OutputsAreOpen ==
    (caller = "reverse_model" /\ Projecting) => exc # "AssertionError"

\* An output of the model that a node of the record consumes.
ConsumedOutputs == {t \in Range(outputs) : Consumers(t) # {}}

\* The assert fails only for a record with an output of the model that a
\* node consumes, or with a node whose producer the filter dropped.
AssertFailsOnlyWhenOutputConsumed ==
    (caller = "reverse_model" /\ Projecting /\ exc = "AssertionError") =>
        \/ ConsumedOutputs # {}
        \/ \E k \in DOMAIN executed_nodes : \E x \in Range(executed_nodes[k].Xs) :
                x \notin Range(model_inputs) /\ ~ProducedByAnother(x, k)

\* The bottleneck tensors of a model of two outputs, none of them consumed,
\* have been computed.
SeveralOutputsNoFailure ==
    /\ BottlenecksComputed
    /\ pc = "reversed"
    /\ Cardinality(Range(outputs)) >= 2
    /\ ConsumedOutputs = {}
    /\ Cardinality(LayerNodes) >= 2

\* ---------------------------------------------------------------- C23
\* The entry holds a single contribution, or a list of two or more, and not
\* both.
OneOfTensorAndTensors(tmp) ==
    /\ ("tensor" \in DOMAIN tmp) # ("tensors" \in DOMAIN tmp)
    /\ "tensors" \in DOMAIN tmp => Len(tmp["tensors"]) >= 2

\* The contributions held before, in the same order, with at most one more
\* at the end.
GrownBy(old, new, n) ==
    /\ Len(new) = Len(old) + n
    /\ \A k \in DOMAIN old : new[k] = old[k]

\* C23: under any sequence of add_reversed_tensors and get_reversed_tensor
\* calls every entry of the table holds exactly one of "tensor" and
\* "tensors", the latter a list of two or more; a call of
\* add_reversed_tensors appends one contribution to the entries of its
\* tensors, no call changes the contributions otherwise, and no call raises
\* "Wrong order, tensors already aggregated!".
C23_TensorXorTensors ==
    [][pc = "table" =>
            /\ \A X \in DOMAIN reversed_tensors' : OneOfTensorAndTensors(reversed_tensors'[X])
            /\ exc' # "Exception"
            /\ \A X \in DOMAIN reversed_tensors :
                    /\ X \in DOMAIN reversed_tensors'
                    /\ GrownBy(Contributions(reversed_tensors[X]),
                               Contributions(reversed_tensors'[X]),
                               IF applied'[1].op = "add_reversed_tensors"
                                    /\ X \in Range(applied'[1].tensors)
                               THEN 1 ELSE 0)]_vars

\* An entry that went from one contribution to a list of three, with a read
\* of its final value before the last of them arrived.
C23_Witness ==
    /\ pc = "table"
    /\ exc = ""
    /\ \E X \in Finalized(reversed_tensors) :
            /\ "tensors" \in DOMAIN reversed_tensors[X]
            /\ "tensor" \notin DOMAIN reversed_tensors[X]
            /\ Len(reversed_tensors[X]["tensors"]) = 3
            /\ applied = <<[op |-> "add_reversed_tensors", tensors |-> <<X>>, finalized |-> {X}]>>

\* ---------------------------------------------------------------- C24
\* The entries of the graph that are not an InputLayer's.
LayerEntries == {k \in DOMAIN execution_trace : execution_trace[k].nid # None}

\* The entry at m lists the node of the entry at n among the consumers of
\* its output t.
ListsConsumer(m, n, t) ==
    \E j \in DOMAIN execution_trace[m].Ys :
        /\ execution_trace[m].Ys[j] = t
        /\ execution_trace[n].nid \in Range(execution_trace[m].Ys_nids[j])

\* C24: in the graph get_model_execution_trace returns, for entries m and n
\* that are not an InputLayer's, n names m as the producer of its input t
\* exactly if t is an output of m and m lists n among the consumers of t;
\* an input no such entry produces has the producer None, and an output no
\* such entry consumes has the consumers [None].
C24_LinksConsistent ==
    GraphReturned =>
        /\ \A m, n \in LayerEntries : \A i \in DOMAIN execution_trace[n].Xs :
                (execution_trace[n].Xs_nids[i] = execution_trace[m].nid)
                    <=> ListsConsumer(m, n, execution_trace[n].Xs[i])
        /\ \A n \in LayerEntries : \A i \in DOMAIN execution_trace[n].Xs :
                (\A m \in LayerEntries :
                        execution_trace[n].Xs[i] \notin Range(execution_trace[m].Ys))
                    => execution_trace[n].Xs_nids[i] = None
        /\ \A m \in LayerEntries : \A j \in DOMAIN execution_trace[m].Ys :
                (\A n \in LayerEntries :
                        execution_trace[m].Ys[j] \notin Range(execution_trace[n].Xs))
                    => execution_trace[m].Ys_nids[j] = <<None>>

\* A graph with a tensor two nodes consume, an output no node consumes and
\* an input no node produces.
C24_Witness ==
    /\ GraphReturned
    /\ \E m \in LayerEntries : \E j \in DOMAIN execution_trace[m].Ys :
            Cardinality(Range(execution_trace[m].Ys_nids[j]) \ {None}) >= 2
    /\ \E m \in LayerEntries : \E j \in DOMAIN execution_trace[m].Ys :
            execution_trace[m].Ys_nids[j] = <<None>>
    /\ \E n \in LayerEntries : \E i \in DOMAIN execution_trace[n].Xs :
            execution_trace[n].Xs_nids[i] = None
====
